---- MODULE Spec2Model ----
(***************************************************************************)
(* Model of the streamgift::stream Move module                             *)
(* (src/contracts/sources/stream.move): the stream ledger, the accrual     *)
(* calculator, the identity registry and the recipient rebinding entry     *)
(* function.  One action per entry function; X_err is the abort code a     *)
(* call of X ends with.  A Move transaction that aborts leaves the global   *)
(* storage untouched, so only calls with X_err = OK are steps.  The routes   *)
(* of the backend (src/backend/src/routes) that drive the module with the   *)
(* admin account and mirror the streams in a database follow the module.    *)
(***************************************************************************)
EXTENDS Integers, Sequences, FiniteSets, TLC

\* ------------------------------------------------------------------ bounds
MaxStreams == 2
MaxTime == 4
MaxRebinds == 2

\* ------------------------------------------------------- program constants
STATUS_ACTIVE == 1
STATUS_PAUSED == 2
STATUS_COMPLETED == 3
STATUS_CANCELLED == 4
PROTOCOL_FEE_BPS == 25
BPS_DENOMINATOR == 10000

\* ------------------------------------------------------------ input sets
ADMIN == "admin"
Addr == {ADMIN, "alice", "ph", "bob"}
AdminSigners == {ADMIN, "alice"}
ContractAddrs == {ADMIN, "alice"}
Recipients == {"ph", "bob"}
EmptyHash == << >>
Hashes == {EmptyHash, <<1>>}
RegisterHashes == Hashes \cup {<<2>>}
Amounts == {0, 1000, 1001}
Durations == {0, 2, 1000}
StartTimes == {0, 3}
ClaimAmounts == {0, 1, 500}
FeeAmounts == {2, 3}
Messages == {"gift"}

VARIABLES
    now,                \* timestamp::now_seconds()
    streams,            \* StreamStore.streams : Table<u64, Stream>
    next_stream_id,     \* StreamStore.next_stream_id
    escrow,             \* value of StreamStore.escrow : Coin<AptosCoin>
    fee_collected,      \* StreamStore.fee_collected
    social_to_address,  \* RecipientMapping.social_to_address
    address_to_social,  \* RecipientMapping.address_to_social
    balance,            \* AptosCoin balance of every account
    coin_store,         \* accounts with a registered CoinStore<AptosCoin>
    user_index,         \* UserStreamIndex of every account
    events,             \* counters of the four event handles, and the last
                        \* RecipientUpdatedEvent emitted
    prisma_stream,      \* rows of the backend's stream table (prisma.stream)
    prisma_socialMapping, \* rows of the backend's socialMapping table
    requests            \* execute requests in flight, each at its position

store == <<streams, next_stream_id, escrow, fee_collected>>
registry == <<social_to_address, address_to_social>>
accounts == <<balance, coin_store, user_index>>
ledger == <<store, registry, accounts, events>>
mirror == <<prisma_stream, prisma_socialMapping, requests>>
vars == <<now, ledger, mirror>>

\* ----------------------------------------------------------- error codes
OK == "OK"
E_NOT_INITIALIZED == "E_NOT_INITIALIZED"
E_ALREADY_INITIALIZED == "E_ALREADY_INITIALIZED"
E_STREAM_NOT_FOUND == "E_STREAM_NOT_FOUND"
E_NOT_STREAM_SENDER == "E_NOT_STREAM_SENDER"
E_NOT_STREAM_RECIPIENT == "E_NOT_STREAM_RECIPIENT"
E_STREAM_NOT_ACTIVE == "E_STREAM_NOT_ACTIVE"
E_INSUFFICIENT_BALANCE == "E_INSUFFICIENT_BALANCE"
E_INVALID_DURATION == "E_INVALID_DURATION"
E_INVALID_AMOUNT == "E_INVALID_AMOUNT"
E_STREAM_ALREADY_CANCELLED == "E_STREAM_ALREADY_CANCELLED"
E_ZERO_CLAIMABLE == "E_ZERO_CLAIMABLE"
E_NOT_ADMIN == "E_NOT_ADMIN"
E_SOCIAL_HASH_MISMATCH == "E_SOCIAL_HASH_MISMATCH"
\* aborts raised by the Move VM and the framework calls the module makes
ARITHMETIC_ERROR == "ARITHMETIC_ERROR"
TABLE_ALREADY_EXISTS == "TABLE_ALREADY_EXISTS"
COIN_INSUFFICIENT_BALANCE == "COIN_INSUFFICIENT_BALANCE"
COIN_STORE_NOT_PUBLISHED == "COIN_STORE_NOT_PUBLISHED"

\* the std::error category each abort of the module is raised with
ErrKind(e) ==
    CASE e \in {E_NOT_INITIALIZED, E_STREAM_NOT_FOUND} -> "not_found"
      [] e \in {E_NOT_ADMIN, E_NOT_STREAM_RECIPIENT, E_NOT_STREAM_SENDER} -> "permission_denied"
      [] e \in {E_STREAM_NOT_ACTIVE, E_STREAM_ALREADY_CANCELLED, E_ZERO_CLAIMABLE} -> "invalid_state"
      [] e \in {E_INVALID_AMOUNT, E_INVALID_DURATION, E_SOCIAL_HASH_MISMATCH,
                E_INSUFFICIENT_BALANCE} -> "invalid_argument"
      [] e = E_ALREADY_INITIALIZED -> "already_exists"
      [] e = OK -> "ok"
      [] OTHER -> "vm_abort"

\* ------------------------------------------------------------- helpers
EmptyTable == [x \in {} |-> 0]

Ids == DOMAIN streams

RECURSIVE SumOver(_, _)
SumOver(f, S) ==
    IF S = {} THEN 0
    ELSE LET x == CHOOSE y \in S : TRUE IN f[x] + SumOver(f, S \ {x})

NoEvent == [stream_id |-> 0]

NoIndex == [exists |-> FALSE, outgoing_stream_ids |-> << >>, incoming_stream_ids |-> << >>]
EmptyIndex == [exists |-> TRUE, outgoing_stream_ids |-> << >>, incoming_stream_ids |-> << >>]

Contains(seq, x) == \E i \in 1..Len(seq) : seq[i] = x

\* aptos_account::deposit_coins: registers the coin store when missing
DepositCoins(bal, to, amt) == [bal EXCEPT ![to] = @ + amt]

\* ------------------------------------------------- accrual calculator
\* calculate_claimable_internal; err = ARITHMETIC_ERROR when a u64
\* subtraction goes below zero
calculate_claimable_internal(stream, current_time) ==
    IF stream.status # STATUS_ACTIVE THEN [err |-> OK, val |-> 0]
    ELSE IF current_time < stream.start_time THEN [err |-> OK, val |-> 0]
    ELSE
      LET effective_time == IF current_time > stream.end_time
                            THEN stream.end_time ELSE current_time
      IN IF effective_time < stream.last_claim_time
         THEN [err |-> ARITHMETIC_ERROR, val |-> 0]
         ELSE
           LET elapsed == effective_time - stream.last_claim_time
               accrued == elapsed * stream.rate_per_second
           IN IF stream.total_amount < stream.claimed_amount
              THEN [err |-> ARITHMETIC_ERROR, val |-> 0]
              ELSE
                LET remaining == stream.total_amount - stream.claimed_amount
                IN [err |-> OK,
                    val |-> IF accrued > remaining THEN remaining ELSE accrued]

\* get_claimable (view)
get_claimable(stream_id, t) == calculate_claimable_internal(streams[stream_id], t)

\* a stream count that forgets that ids start at 1
get_stream_count_OffByOne == next_stream_id

\* get_stream_count (view)
get_stream_count == next_stream_id - 1

\* ------------------------------------------------------------ creation
Fee(amount) == (amount * PROTOCOL_FEE_BPS) \div BPS_DENOMINATOR

\* a creation that starts the accrual at the clock instead of the start time
NewStream_AccruesFromCreation(stream_id, sender_addr, recipient_address, recipient_social_hash, amount, duration_seconds, start_time, message) ==
    LET fee == Fee(amount)
        stream_amount == amount - fee
        actual_start_time == IF start_time = 0 THEN now ELSE start_time
    IN [id |-> stream_id,
        sender |-> sender_addr,
        recipient |-> recipient_address,
        recipient_social_hash |-> recipient_social_hash,
        total_amount |-> stream_amount,
        claimed_amount |-> 0,
        rate_per_second |-> stream_amount \div duration_seconds,
        start_time |-> actual_start_time,
        end_time |-> actual_start_time + duration_seconds,
        last_claim_time |-> now,
        message |-> message,
        status |-> STATUS_ACTIVE,
        created_at |-> now]

\* a creation that rounds the rate up instead of down
NewStream_RateRoundedUp(stream_id, sender_addr, recipient_address, recipient_social_hash, amount, duration_seconds, start_time, message) ==
    LET fee == Fee(amount)
        stream_amount == amount - fee
        actual_start_time == IF start_time = 0 THEN now ELSE start_time
    IN [id |-> stream_id,
        sender |-> sender_addr,
        recipient |-> recipient_address,
        recipient_social_hash |-> recipient_social_hash,
        total_amount |-> stream_amount,
        claimed_amount |-> 0,
        rate_per_second |-> (stream_amount + duration_seconds - 1) \div duration_seconds,
        start_time |-> actual_start_time,
        end_time |-> actual_start_time + duration_seconds,
        last_claim_time |-> actual_start_time,
        message |-> message,
        status |-> STATUS_ACTIVE,
        created_at |-> now]

\* a creation that computes the rate from the amount before the fee
NewStream_RateBeforeFee(stream_id, sender_addr, recipient_address, recipient_social_hash, amount, duration_seconds, start_time, message) ==
    LET fee == Fee(amount)
        stream_amount == amount - fee
        actual_start_time == IF start_time = 0 THEN now ELSE start_time
    IN [id |-> stream_id,
        sender |-> sender_addr,
        recipient |-> recipient_address,
        recipient_social_hash |-> recipient_social_hash,
        total_amount |-> stream_amount,
        claimed_amount |-> 0,
        rate_per_second |-> amount \div duration_seconds,
        start_time |-> actual_start_time,
        end_time |-> actual_start_time + duration_seconds,
        last_claim_time |-> actual_start_time,
        message |-> message,
        status |-> STATUS_ACTIVE,
        created_at |-> now]

NewStream(stream_id, sender_addr, recipient_address, recipient_social_hash, amount, duration_seconds, start_time, message) ==
    LET fee == Fee(amount)
        stream_amount == amount - fee
        actual_start_time == IF start_time = 0 THEN now ELSE start_time
    IN [id |-> stream_id,
        sender |-> sender_addr,
        recipient |-> recipient_address,
        recipient_social_hash |-> recipient_social_hash,
        total_amount |-> stream_amount,
        claimed_amount |-> 0,
        rate_per_second |-> stream_amount \div duration_seconds,
        start_time |-> actual_start_time,
        end_time |-> actual_start_time + duration_seconds,
        last_claim_time |-> actual_start_time,
        message |-> message,
        status |-> STATUS_ACTIVE,
        created_at |-> now]

\* a creation that leaves the fee out of the escrow
EscrowAfterCreate_FeeNotEscrowed(amount) == escrow + amount - Fee(amount)

\* a creation that does not record its fee
FeeAfterCreate_NotRecorded(amount) == fee_collected

\* the escrow and fee bookkeeping of a creation
EscrowAfterCreate(amount) == escrow + amount
FeeAfterCreate(amount) == fee_collected + Fee(amount)

\* create_stream without the amount > 0 assertion
create_stream_err_NoAmountCheck(sender, contract_address, amount, duration_seconds) ==
    IF ~(duration_seconds > 0) THEN E_INVALID_DURATION
    ELSE IF contract_address # ADMIN THEN E_NOT_INITIALIZED
    ELSE IF sender \notin coin_store THEN COIN_STORE_NOT_PUBLISHED
    ELSE IF balance[sender] < amount THEN COIN_INSUFFICIENT_BALANCE
    ELSE OK

\* the abort code create_stream ends with (OK: it commits)
create_stream_err(sender, contract_address, amount, duration_seconds) ==
    IF ~(amount > 0) THEN E_INVALID_AMOUNT
    ELSE IF ~(duration_seconds > 0) THEN E_INVALID_DURATION
    ELSE IF contract_address # ADMIN THEN E_NOT_INITIALIZED
    ELSE IF sender \notin coin_store THEN COIN_STORE_NOT_PUBLISHED
    ELSE IF balance[sender] < amount THEN COIN_INSUFFICIENT_BALANCE
    ELSE OK

create_stream(sender, contract_address, recipient_address, recipient_social_hash, amount, duration_seconds, start_time, message) ==
    /\ next_stream_id <= MaxStreams
    /\ create_stream_err(sender, contract_address, amount, duration_seconds) = OK
    /\ LET stream_id == next_stream_id
           stream == NewStream(stream_id, sender, recipient_address,
                               recipient_social_hash, amount, duration_seconds,
                               start_time, message)
           idx == IF user_index[sender].exists THEN user_index[sender] ELSE EmptyIndex
       IN /\ balance' = [balance EXCEPT ![sender] = @ - amount]
          /\ escrow' = EscrowAfterCreate(amount)
          /\ fee_collected' = FeeAfterCreate(amount)
          /\ next_stream_id' = stream_id + 1
          /\ streams' = streams @@ (stream_id :> stream)
          /\ events' = [events EXCEPT !.created = @ + 1]
          /\ user_index' = [user_index EXCEPT ![sender] =
                 [idx EXCEPT !.outgoing_stream_ids = Append(@, stream_id)]]
          /\ UNCHANGED <<now, registry, coin_store>>

admin_create_stream_err(admin, contract_address, amount, duration_seconds) ==
    IF ~(amount > 0) THEN E_INVALID_AMOUNT
    ELSE IF ~(duration_seconds > 0) THEN E_INVALID_DURATION
    ELSE IF contract_address # ADMIN THEN E_NOT_INITIALIZED
    ELSE IF admin # ADMIN THEN E_NOT_ADMIN
    ELSE IF admin \notin coin_store THEN COIN_STORE_NOT_PUBLISHED
    ELSE IF balance[admin] < amount THEN COIN_INSUFFICIENT_BALANCE
    ELSE OK

admin_create_stream(admin, contract_address, sender_address, recipient_address, recipient_social_hash, amount, duration_seconds, start_time, message) ==
    /\ next_stream_id <= MaxStreams
    /\ admin_create_stream_err(admin, contract_address, amount, duration_seconds) = OK
    /\ LET stream_id == next_stream_id
           stream == NewStream(stream_id, sender_address, recipient_address,
                               recipient_social_hash, amount, duration_seconds,
                               start_time, message)
       IN /\ balance' = [balance EXCEPT ![admin] = @ - amount]
          /\ escrow' = EscrowAfterCreate(amount)
          /\ fee_collected' = FeeAfterCreate(amount)
          /\ next_stream_id' = stream_id + 1
          /\ streams' = streams @@ (stream_id :> stream)
          /\ events' = [events EXCEPT !.created = @ + 1]
          /\ UNCHANGED <<now, registry, coin_store, user_index>>

\* ------------------------------------------------------------- claims
\* a claim that ignores the requested amount
ClaimAmount_AlwaysAll(amount, claimable) == claimable

\* an over-request that is not capped at the claimable amount
ClaimAmount_Uncapped(amount, claimable) ==
    IF amount = 0 THEN claimable ELSE amount

\* the amount a claim takes, given the requested amount and the claimable one
ClaimAmount(amount, claimable) ==
    IF amount = 0 \/ amount > claimable THEN claimable ELSE amount

\* a claim that completes the stream only when claimed_amount exceeds total_amount
StreamAfterClaim_StrictCompare(stream, claim_amount) ==
    LET claimed == stream.claimed_amount + claim_amount
    IN [stream EXCEPT !.claimed_amount = claimed,
                      !.last_claim_time = now,
                      !.status = IF claimed > stream.total_amount
                                 THEN STATUS_COMPLETED ELSE @]

\* a claim that marks a fully claimed stream PAUSED
StreamAfterClaim_Pauses(stream, claim_amount) ==
    LET claimed == stream.claimed_amount + claim_amount
    IN [stream EXCEPT !.claimed_amount = claimed,
                      !.last_claim_time = now,
                      !.status = IF claimed >= stream.total_amount
                                 THEN STATUS_PAUSED ELSE @]

\* a claim that never marks the stream COMPLETED
StreamAfterClaim_NeverCompletes(stream, claim_amount) ==
    [stream EXCEPT !.claimed_amount = @ + claim_amount,
                   !.last_claim_time = now]

\* a claim that stores the amount of this claim instead of adding it
StreamAfterClaim_Overwrites(stream, claim_amount) ==
    [stream EXCEPT !.claimed_amount = claim_amount,
                   !.last_claim_time = now,
                   !.status = IF claim_amount >= stream.total_amount
                              THEN STATUS_COMPLETED ELSE @]

\* the stream record after a claim of claim_amount
StreamAfterClaim(stream, claim_amount) ==
    LET claimed == stream.claimed_amount + claim_amount
    IN [stream EXCEPT !.claimed_amount = claimed,
                      !.last_claim_time = now,
                      !.status = IF claimed >= stream.total_amount
                                 THEN STATUS_COMPLETED ELSE @]

\* the checks of a claim without the claimable > 0 assertion
ClaimChecks_NoZeroCheck(stream_id, recipient_addr, amount) ==
    IF stream_id \notin Ids THEN E_STREAM_NOT_FOUND
    ELSE
      LET stream == streams[stream_id] IN
      IF stream.recipient # recipient_addr THEN E_NOT_STREAM_RECIPIENT
      ELSE IF stream.status # STATUS_ACTIVE THEN E_STREAM_NOT_ACTIVE
      ELSE
        LET c == calculate_claimable_internal(stream, now) IN
        IF c.err # OK THEN c.err
        ELSE IF escrow < ClaimAmount(amount, c.val) THEN COIN_INSUFFICIENT_BALANCE
        ELSE OK

\* the checks of a claim without the comparison with the stream's recipient
ClaimChecks_NoRecipientCheck(stream_id, recipient_addr, amount) ==
    IF stream_id \notin Ids THEN E_STREAM_NOT_FOUND
    ELSE
      LET stream == streams[stream_id] IN
      IF stream.status # STATUS_ACTIVE THEN E_STREAM_NOT_ACTIVE
      ELSE
        LET c == calculate_claimable_internal(stream, now) IN
        IF c.err # OK THEN c.err
        ELSE IF ~(c.val > 0) THEN E_ZERO_CLAIMABLE
        ELSE IF escrow < ClaimAmount(amount, c.val) THEN COIN_INSUFFICIENT_BALANCE
        ELSE OK

\* the checks claim_stream and admin_claim_for_recipient make on the stream
ClaimChecks(stream_id, recipient_addr, amount) ==
    IF stream_id \notin Ids THEN E_STREAM_NOT_FOUND
    ELSE
      LET stream == streams[stream_id] IN
      IF stream.recipient # recipient_addr THEN E_NOT_STREAM_RECIPIENT
      ELSE IF stream.status # STATUS_ACTIVE THEN E_STREAM_NOT_ACTIVE
      ELSE
        LET c == calculate_claimable_internal(stream, now) IN
        IF c.err # OK THEN c.err
        ELSE IF ~(c.val > 0) THEN E_ZERO_CLAIMABLE
        ELSE IF escrow < ClaimAmount(amount, c.val) THEN COIN_INSUFFICIENT_BALANCE
        ELSE OK

claim_stream_err(recipient, contract_address, stream_id, amount) ==
    IF contract_address # ADMIN THEN E_NOT_INITIALIZED
    ELSE ClaimChecks(stream_id, recipient, amount)

claim_stream(recipient, contract_address, stream_id, amount) ==
    /\ claim_stream_err(recipient, contract_address, stream_id, amount) = OK
    /\ LET stream == streams[stream_id]
           claim_amount == ClaimAmount(amount, calculate_claimable_internal(stream, now).val)
           idx == IF user_index[recipient].exists
                  THEN user_index[recipient] ELSE EmptyIndex
       IN /\ streams' = [streams EXCEPT ![stream_id] = StreamAfterClaim(stream, claim_amount)]
          /\ escrow' = escrow - claim_amount
          /\ balance' = DepositCoins(balance, recipient, claim_amount)
          /\ coin_store' = coin_store \cup {recipient}
          /\ events' = [events EXCEPT !.claimed = @ + 1]
          /\ user_index' = [user_index EXCEPT ![recipient] =
                 IF Contains(idx.incoming_stream_ids, stream_id) THEN idx
                 ELSE [idx EXCEPT !.incoming_stream_ids = Append(@, stream_id)]]
          /\ UNCHANGED <<now, next_stream_id, fee_collected, registry>>

admin_claim_for_recipient_err(admin, contract_address, stream_id, recipient_address, amount) ==
    IF contract_address # ADMIN THEN E_NOT_INITIALIZED
    ELSE IF admin # ADMIN THEN E_NOT_ADMIN
    ELSE ClaimChecks(stream_id, recipient_address, amount)

admin_claim_for_recipient(admin, contract_address, stream_id, recipient_address, amount) ==
    /\ admin_claim_for_recipient_err(admin, contract_address, stream_id,
                                     recipient_address, amount) = OK
    /\ LET stream == streams[stream_id]
           claim_amount == ClaimAmount(amount, calculate_claimable_internal(stream, now).val)
       IN /\ streams' = [streams EXCEPT ![stream_id] = StreamAfterClaim(stream, claim_amount)]
          /\ escrow' = escrow - claim_amount
          /\ balance' = DepositCoins(balance, recipient_address, claim_amount)
          /\ coin_store' = coin_store \cup {recipient_address}
          /\ events' = [events EXCEPT !.claimed = @ + 1]
          /\ UNCHANGED <<now, next_stream_id, fee_collected, registry, user_index>>

\* ------------------------------------------------------------- cancel
\* a refund that forgets what the recipient has claimed already
CancelRemaining_IgnoresClaimed(stream, claimable) ==
    stream.total_amount - claimable

\* the part of a cancelled stream that goes back to the sender
CancelRemaining(stream, claimable) ==
    stream.total_amount - stream.claimed_amount - claimable

\* the checks of a cancel without the status check
CancelChecks_NoStatusCheck(stream_id, sender_addr) ==
    IF stream_id \notin Ids THEN E_STREAM_NOT_FOUND
    ELSE
      LET stream == streams[stream_id] IN
      IF stream.sender # sender_addr THEN E_NOT_STREAM_SENDER
      ELSE
        LET c == calculate_claimable_internal(stream, now) IN
        IF c.err # OK THEN c.err
        ELSE
          LET remaining == stream.total_amount - stream.claimed_amount - c.val IN
          IF remaining < 0 THEN ARITHMETIC_ERROR
          ELSE IF escrow < c.val \/ escrow - c.val < remaining
            THEN COIN_INSUFFICIENT_BALANCE
          ELSE OK

\* the checks cancel_stream and admin_cancel_stream make on the stream, up
\* to the two extractions from escrow
CancelChecks(stream_id, sender_addr) ==
    IF stream_id \notin Ids THEN E_STREAM_NOT_FOUND
    ELSE
      LET stream == streams[stream_id] IN
      IF stream.sender # sender_addr THEN E_NOT_STREAM_SENDER
      ELSE IF stream.status # STATUS_ACTIVE THEN E_STREAM_ALREADY_CANCELLED
      ELSE
        LET c == calculate_claimable_internal(stream, now) IN
        IF c.err # OK THEN c.err
        ELSE
          LET remaining == CancelRemaining(stream, c.val) IN
          IF remaining < 0 THEN ARITHMETIC_ERROR
          ELSE IF escrow < c.val \/ escrow - c.val < remaining
            THEN COIN_INSUFFICIENT_BALANCE
          ELSE OK

\* a cancel that leaves the status as it is
StreamAfterCancel_StaysActive(stream) == stream

\* the stream record after a cancel
StreamAfterCancel(stream) == [stream EXCEPT !.status = STATUS_CANCELLED]

cancel_stream_err(sender, contract_address, stream_id) ==
    IF contract_address # ADMIN THEN E_NOT_INITIALIZED
    ELSE IF CancelChecks(stream_id, sender) # OK THEN CancelChecks(stream_id, sender)
    ELSE
      \* coin::deposit needs the sender's coin store
      LET stream == streams[stream_id]
          claimable == calculate_claimable_internal(stream, now).val
      IN IF CancelRemaining(stream, claimable) > 0 /\ sender \notin coin_store
         THEN COIN_STORE_NOT_PUBLISHED ELSE OK

cancel_stream(sender, contract_address, stream_id) ==
    /\ cancel_stream_err(sender, contract_address, stream_id) = OK
    /\ LET stream == streams[stream_id]
           claimable == calculate_claimable_internal(stream, now).val
           remaining == CancelRemaining(stream, claimable)
       IN /\ streams' = [streams EXCEPT ![stream_id] = StreamAfterCancel(stream)]
          /\ escrow' = escrow - claimable - remaining
          /\ balance' = DepositCoins(DepositCoins(balance, stream.recipient, claimable),
                                     sender, remaining)
          /\ coin_store' = coin_store \cup (IF claimable > 0 THEN {stream.recipient} ELSE {})
          /\ events' = [events EXCEPT !.cancelled = @ + 1]
          /\ UNCHANGED <<now, next_stream_id, fee_collected, registry, user_index>>

admin_cancel_stream_err(admin, contract_address, stream_id, sender_address) ==
    IF contract_address # ADMIN THEN E_NOT_INITIALIZED
    ELSE IF admin # ADMIN THEN E_NOT_ADMIN
    ELSE CancelChecks(stream_id, sender_address)

admin_cancel_stream(admin, contract_address, stream_id, sender_address) ==
    /\ admin_cancel_stream_err(admin, contract_address, stream_id, sender_address) = OK
    /\ LET stream == streams[stream_id]
           claimable == calculate_claimable_internal(stream, now).val
           remaining == CancelRemaining(stream, claimable)
       IN /\ streams' = [streams EXCEPT ![stream_id] = StreamAfterCancel(stream)]
          /\ escrow' = escrow - claimable - remaining
          /\ balance' = DepositCoins(DepositCoins(balance, stream.recipient, claimable),
                                     sender_address, remaining)
          /\ coin_store' = coin_store
                 \cup (IF claimable > 0 THEN {stream.recipient} ELSE {})
                 \cup (IF remaining > 0 THEN {sender_address} ELSE {})
          /\ events' = [events EXCEPT !.cancelled = @ + 1]
          /\ UNCHANGED <<now, next_stream_id, fee_collected, registry, user_index>>

\* ---------------------------------------------------------------- fees
\* a withdrawal that does not compare the amount with the collected fees
withdraw_fees_err_NoFeeCheck(admin, contract_address, amount) ==
    IF contract_address # ADMIN THEN E_NOT_INITIALIZED
    ELSE IF admin # ADMIN THEN E_NOT_ADMIN
    ELSE IF escrow < amount THEN COIN_INSUFFICIENT_BALANCE
    ELSE IF admin \notin coin_store THEN COIN_STORE_NOT_PUBLISHED
    ELSE OK

withdraw_fees_err(admin, contract_address, amount) ==
    IF contract_address # ADMIN THEN E_NOT_INITIALIZED
    ELSE IF admin # ADMIN THEN E_NOT_ADMIN
    ELSE IF ~(amount <= fee_collected) THEN E_INSUFFICIENT_BALANCE
    ELSE IF escrow < amount THEN COIN_INSUFFICIENT_BALANCE
    ELSE IF admin \notin coin_store THEN COIN_STORE_NOT_PUBLISHED
    ELSE OK

withdraw_fees(admin, contract_address, amount) ==
    /\ withdraw_fees_err(admin, contract_address, amount) = OK
    /\ fee_collected' = fee_collected - amount
    /\ escrow' = escrow - amount
    /\ balance' = [balance EXCEPT ![admin] = @ + amount]
    /\ UNCHANGED <<now, streams, next_stream_id, registry, coin_store, user_index, events>>

\* ------------------------------------------------------------ registry
TableRemove(t, k) == [x \in DOMAIN t \ {k} |-> t[x]]
TableAdd(t, k, v) == [x \in DOMAIN t \cup {k} |-> IF x = k THEN v ELSE t[x]]

register_recipient_err(admin, social_hash, recipient_address) ==
    IF admin # ADMIN THEN E_NOT_ADMIN
    ELSE IF social_hash \in DOMAIN social_to_address THEN OK
    ELSE IF recipient_address \in DOMAIN address_to_social THEN TABLE_ALREADY_EXISTS
    ELSE OK

register_recipient(admin, social_hash, recipient_address) ==
    /\ register_recipient_err(admin, social_hash, recipient_address) = OK
    /\ IF social_hash \in DOMAIN social_to_address
       THEN UNCHANGED registry
       ELSE /\ social_to_address' = TableAdd(social_to_address, social_hash, recipient_address)
            /\ address_to_social' = TableAdd(address_to_social, recipient_address, social_hash)
    /\ UNCHANGED <<now, store, accounts, events>>

\* a rebind that clears the identity hash of the stream it rebinds
StreamAfterRebind_ClearsHash(stream, new_recipient) ==
    [stream EXCEPT !.recipient = new_recipient, !.recipient_social_hash = EmptyHash]

\* a rebind that updates the registry and leaves the stream's recipient
StreamAfterRebind_KeepsRecipient(stream, new_recipient) == stream

\* the stream record after a rebind
StreamAfterRebind(stream, new_recipient) == [stream EXCEPT !.recipient = new_recipient]

\* a rebind without the comparison of the presented hash with the stream's
update_stream_recipient_err_NoHashCheck(admin, contract_address, stream_id, new_recipient, social_hash) ==
    IF contract_address # ADMIN THEN E_NOT_INITIALIZED
    ELSE IF admin # ADMIN THEN E_NOT_ADMIN
    ELSE IF stream_id \notin Ids THEN E_STREAM_NOT_FOUND
    ELSE IF new_recipient \in DOMAIN TableRemove(address_to_social, streams[stream_id].recipient)
      THEN TABLE_ALREADY_EXISTS
    ELSE OK

\* a rebind that leaves the reverse entry of the old recipient in place
ReverseAfterRebind_KeepsOld(old_recipient, new_recipient, social_hash) ==
    TableAdd(address_to_social, new_recipient, social_hash)

\* address_to_social after a rebind: the old recipient's entry is removed
\* when present, the new recipient's entry is added
ReverseAfterRebind(old_recipient, new_recipient, social_hash) ==
    TableAdd(TableRemove(address_to_social, old_recipient), new_recipient, social_hash)

update_stream_recipient_err(admin, contract_address, stream_id, new_recipient, social_hash) ==
    IF contract_address # ADMIN THEN E_NOT_INITIALIZED
    ELSE IF admin # ADMIN THEN E_NOT_ADMIN
    ELSE IF stream_id \notin Ids THEN E_STREAM_NOT_FOUND
    ELSE IF streams[stream_id].recipient_social_hash # social_hash
      THEN E_SOCIAL_HASH_MISMATCH
    ELSE IF new_recipient \in DOMAIN TableRemove(address_to_social, streams[stream_id].recipient)
      THEN TABLE_ALREADY_EXISTS
    ELSE OK

update_stream_recipient(admin, contract_address, stream_id, new_recipient, social_hash) ==
    /\ events.updated < MaxRebinds
    /\ update_stream_recipient_err(admin, contract_address, stream_id,
                                   new_recipient, social_hash) = OK
    /\ LET old_recipient == streams[stream_id].recipient
           s2a == TableRemove(social_to_address, social_hash)
       IN /\ streams' = [streams EXCEPT ![stream_id] = StreamAfterRebind(@, new_recipient)]
          /\ social_to_address' = TableAdd(s2a, social_hash, new_recipient)
          /\ address_to_social' = ReverseAfterRebind(old_recipient, new_recipient, social_hash)
          /\ events' = [events EXCEPT
                 !.updated = @ + 1,
                 !.last_updated = [stream_id |-> stream_id,
                                   old_recipient |-> old_recipient,
                                   new_recipient |-> new_recipient,
                                   social_hash |-> social_hash]]
          /\ UNCHANGED <<now, next_stream_id, escrow, fee_collected, accounts>>

\* ------------------------------------- entry functions as ledger functions
\* claim and cancel once more, as functions from a ledger value to the abort
\* code and the ledger after the call, so that two calls can be composed
\* and two entry functions compared on one ledger
Ledger ==
    [streams |-> streams, escrow |-> escrow, fee_collected |-> fee_collected,
     balance |-> balance, coin_store |-> coin_store, events |-> events,
     user_index |-> user_index]

Aborts(L, e) == [err |-> e, ledger |-> L]

ClaimChecksOn(L, stream_id, recipient_addr, amount) ==
    IF stream_id \notin DOMAIN L.streams THEN E_STREAM_NOT_FOUND
    ELSE
      LET stream == L.streams[stream_id] IN
      IF stream.recipient # recipient_addr THEN E_NOT_STREAM_RECIPIENT
      ELSE IF stream.status # STATUS_ACTIVE THEN E_STREAM_NOT_ACTIVE
      ELSE
        LET c == calculate_claimable_internal(stream, now) IN
        IF c.err # OK THEN c.err
        ELSE IF ~(c.val > 0) THEN E_ZERO_CLAIMABLE
        ELSE IF L.escrow < ClaimAmount(amount, c.val) THEN COIN_INSUFFICIENT_BALANCE
        ELSE OK

\* the ledger after the claim of a stream, up to the recipient's index
LedgerAfterClaim(L, stream_id, recipient_addr, amount) ==
    LET stream == L.streams[stream_id]
        claim_amount == ClaimAmount(amount, calculate_claimable_internal(stream, now).val)
    IN [L EXCEPT !.streams[stream_id] = StreamAfterClaim(stream, claim_amount),
                 !.escrow = @ - claim_amount,
                 !.balance = DepositCoins(@, recipient_addr, claim_amount),
                 !.coin_store = @ \cup {recipient_addr},
                 !.events.claimed = @ + 1]

claim_stream_on(L, recipient, contract_address, stream_id, amount) ==
    IF contract_address # ADMIN THEN Aborts(L, E_NOT_INITIALIZED)
    ELSE IF ClaimChecksOn(L, stream_id, recipient, amount) # OK
      THEN Aborts(L, ClaimChecksOn(L, stream_id, recipient, amount))
    ELSE
      LET after == LedgerAfterClaim(L, stream_id, recipient, amount)
          idx == IF L.user_index[recipient].exists
                 THEN L.user_index[recipient] ELSE EmptyIndex
      IN [err |-> OK,
          ledger |-> [after EXCEPT !.user_index[recipient] =
              IF Contains(idx.incoming_stream_ids, stream_id) THEN idx
              ELSE [idx EXCEPT !.incoming_stream_ids = Append(@, stream_id)]]]

admin_claim_for_recipient_on(L, admin, contract_address, stream_id, recipient_address, amount) ==
    IF contract_address # ADMIN THEN Aborts(L, E_NOT_INITIALIZED)
    ELSE IF admin # ADMIN THEN Aborts(L, E_NOT_ADMIN)
    ELSE IF ClaimChecksOn(L, stream_id, recipient_address, amount) # OK
      THEN Aborts(L, ClaimChecksOn(L, stream_id, recipient_address, amount))
    ELSE [err |-> OK, ledger |-> LedgerAfterClaim(L, stream_id, recipient_address, amount)]

CancelChecksOn(L, stream_id, sender_addr) ==
    IF stream_id \notin DOMAIN L.streams THEN E_STREAM_NOT_FOUND
    ELSE
      LET stream == L.streams[stream_id] IN
      IF stream.sender # sender_addr THEN E_NOT_STREAM_SENDER
      ELSE IF stream.status # STATUS_ACTIVE THEN E_STREAM_ALREADY_CANCELLED
      ELSE
        LET c == calculate_claimable_internal(stream, now) IN
        IF c.err # OK THEN c.err
        ELSE
          LET remaining == CancelRemaining(stream, c.val) IN
          IF remaining < 0 THEN ARITHMETIC_ERROR
          ELSE IF L.escrow < c.val \/ L.escrow - c.val < remaining
            THEN COIN_INSUFFICIENT_BALANCE
          ELSE OK

\* the ledger after the cancel of a stream, up to the coin store of the sender
LedgerAfterCancel(L, stream_id, sender_addr) ==
    LET stream == L.streams[stream_id]
        claimable == calculate_claimable_internal(stream, now).val
        remaining == CancelRemaining(stream, claimable)
    IN [L EXCEPT !.streams[stream_id] = StreamAfterCancel(stream),
                 !.escrow = @ - claimable - remaining,
                 !.balance = DepositCoins(DepositCoins(@, stream.recipient, claimable),
                                          sender_addr, remaining),
                 !.coin_store = @ \cup (IF claimable > 0 THEN {stream.recipient} ELSE {}),
                 !.events.cancelled = @ + 1]

cancel_stream_on(L, sender, contract_address, stream_id) ==
    IF contract_address # ADMIN THEN Aborts(L, E_NOT_INITIALIZED)
    ELSE IF CancelChecksOn(L, stream_id, sender) # OK
      THEN Aborts(L, CancelChecksOn(L, stream_id, sender))
    ELSE
      LET stream == L.streams[stream_id]
          claimable == calculate_claimable_internal(stream, now).val
      IN \* coin::deposit needs the sender's coin store
         IF CancelRemaining(stream, claimable) > 0 /\ sender \notin L.coin_store
         THEN Aborts(L, COIN_STORE_NOT_PUBLISHED)
         ELSE [err |-> OK, ledger |-> LedgerAfterCancel(L, stream_id, sender)]

admin_cancel_stream_on(L, admin, contract_address, stream_id, sender_address) ==
    IF contract_address # ADMIN THEN Aborts(L, E_NOT_INITIALIZED)
    ELSE IF admin # ADMIN THEN Aborts(L, E_NOT_ADMIN)
    ELSE IF CancelChecksOn(L, stream_id, sender_address) # OK
      THEN Aborts(L, CancelChecksOn(L, stream_id, sender_address))
    ELSE
      LET stream == L.streams[stream_id]
          claimable == calculate_claimable_internal(stream, now).val
          after == LedgerAfterCancel(L, stream_id, sender_address)
      IN \* aptos_account::deposit_coins registers the sender's coin store
         [err |-> OK,
          ledger |-> [after EXCEPT !.coin_store =
              @ \cup (IF CancelRemaining(stream, claimable) > 0
                      THEN {sender_address} ELSE {})]]

\* ------------------------------------------------- orchestrator (backend)
\* The Express routes of the backend.  The backend signs every engine
\* transaction with the admin account (movementBlockchain.ts) and mirrors
\* the streams in its database (prisma).  A route is one action when its
\* handler submits at most one engine transaction; the execute route, which
\* reads the mirror, submits up to two transactions and writes the mirror
\* after the second, is three actions and a request in flight in between.
MaxRows == 1
MaxRequests == 2
MaxMirrorClaimed == 1000

\* null, undefined and '' of a string the handlers test for truthiness
Null == << >>
NullType == "null"
NoWallet == ""
\* '0x00..00', the recipient of a stream whose addressee has no wallet yet
PlaceholderAddress == "ph"
\* new Uint8Array(32)
ZeroHash == <<0>>

\* the users of the identity provider: the wallet in the claims of a user's
\* token, and the email the provider has verified for the user
Users == {"bob", "alice"}
WalletOf == [u \in Users |-> u]
BobEmail == <<"bob", "@", "x">>
BobEmailUpper == <<"Bob", "@", "x">>
AliceEmail == <<"alice", "@", "x">>
VerifiedEmail == [u \in Users |-> IF u = "bob" THEN BobEmail ELSE AliceEmail]

\* what a request body can carry
EmailInputs == {BobEmail, BobEmailUpper}
EmailBodies == {Null, BobEmail, BobEmailUpper, AliceEmail}
WalletBodies == {NoWallet, "bob", "alice"}
AmountBodies == {0, 500}
CreateAmounts == {1000, 1001}
ConfirmAmounts == {1000}

verifyUserWallet(privyId, walletAddress) == WalletOf[privyId] = walletAddress

\* String.toLowerCase and String.replace(c, ''), which drops the first c
toLowerCase(h) == [i \in 1..Len(h) |-> IF h[i] = "Bob" THEN "bob" ELSE h[i]]

replace(h, c) ==
    IF \E i \in 1..Len(h) : h[i] = c
    THEN LET k == CHOOSE i \in 1..Len(h) :
                      h[i] = c /\ \A j \in 1..(i - 1) : h[j] # c
         IN SubSeq(h, 1, k - 1) \o SubSeq(h, k + 1, Len(h))
    ELSE h

NormalizeHandle(handle) == replace(toLowerCase(handle), "@")

\* sha256 of `${type}:${normalized}`, taken as free of collisions
createSocialHash(type, handle) == <<type, ":">> \o NormalizeHandle(handle)

\* Buffer.toString('hex') and its inverse
ToHex(bytes) == <<"hex">> \o bytes
hashToBytes(hexString) == Tail(hexString)

NoRequest == [pc |-> "idle"]

\* req.body.walletAddress || req.user.walletAddress, accepted when a wallet
\* of the body belongs to the authenticated user
RequestWallet(u, bodyWallet) ==
    IF bodyWallet # NoWallet THEN bodyWallet ELSE WalletOf[u]

WalletAccepted(u, bodyWallet) ==
    bodyWallet # NoWallet => verifyUserWallet(u, bodyWallet)

\* isAuthorized of the prepare and the execute handlers
isAuthorized(stream, userWalletAddress, userEmail) ==
    \/ stream.recipientAddress = userWalletAddress
    \/ /\ stream.recipientSocialType = "email"
       /\ stream.recipientSocialHandle # Null
       /\ userEmail # Null
       /\ NormalizeHandle(userEmail) = NormalizeHandle(stream.recipientSocialHandle)

\* the wallet a mapping of the identity holds, the placeholder without one
MappedAddress(recipientType, recipientValue) ==
    LET found == {h \in DOMAIN prisma_socialMapping :
                     /\ prisma_socialMapping[h].socialType = recipientType
                     /\ prisma_socialMapping[h].socialHandle = NormalizeHandle(recipientValue)}
    IN IF found # {}
       THEN prisma_socialMapping[CHOOSE h \in found : TRUE].walletAddress
       ELSE PlaceholderAddress

\* the row prisma.stream.create writes
MirrorRow(senderAddress, recipientAddress, recipientType, recipientValue, socialHash, amount, durationSeconds, startTime, onChainId) ==
    [senderAddress |-> senderAddress,
     recipientAddress |-> recipientAddress,
     recipientSocialType |-> IF recipientType # "wallet" THEN recipientType ELSE NullType,
     recipientSocialHandle |-> IF recipientType # "wallet"
                               THEN NormalizeHandle(recipientValue) ELSE Null,
     recipientSocialHash |-> IF recipientType # "wallet" THEN ToHex(socialHash) ELSE Null,
     totalAmount |-> amount,
     claimedAmount |-> 0,
     ratePerSecond |-> amount \div durationSeconds,
     startTime |-> startTime,
     status |-> "ACTIVE",
     onChainId |-> onChainId]

\* POST /streams: the engine creation is submitted only for a signed request,
\* and the row is written whether or not it was submitted or committed
stream_create(senderAddress, recipientType, recipientValue, amount, durationSeconds, signed) ==
    /\ Len(prisma_stream) < MaxRows
    /\ LET recipientAddress == IF recipientType = "wallet" THEN recipientValue
                               ELSE MappedAddress(recipientType, recipientValue)
           socialHash == IF recipientType = "wallet" THEN ZeroHash
                         ELSE createSocialHash(recipientType, recipientValue)
           startTime == now
           committed == signed /\ create_stream_err(ADMIN, ADMIN, amount, durationSeconds) = OK
       IN /\ IF committed
             THEN create_stream(ADMIN, ADMIN, recipientAddress, socialHash, amount,
                                durationSeconds, startTime, "gift")
             ELSE UNCHANGED <<now, ledger>>
          /\ prisma_stream' = Append(prisma_stream,
                 MirrorRow(senderAddress, recipientAddress, recipientType, recipientValue,
                           socialHash, amount, durationSeconds, startTime,
                           IF committed THEN get_stream_count' ELSE 0))
          /\ UNCHANGED <<prisma_socialMapping, requests>>

\* POST /claim/:streamId/prepare: the steps of the handler that change state
claim_prepare(u, userEmail, bodyWallet, i) ==
    /\ i \in 1..Len(prisma_stream)
    /\ WalletAccepted(u, bodyWallet)
    /\ LET stream == prisma_stream[i]
           userWalletAddress == RequestWallet(u, bodyWallet)
       IN /\ isAuthorized(stream, userWalletAddress, userEmail)
          /\ stream.recipientAddress # userWalletAddress
          /\ stream.onChainId > 0
          /\ stream.recipientSocialHash # Null
          /\ update_stream_recipient(ADMIN, ADMIN, stream.onChainId, userWalletAddress,
                                     hashToBytes(stream.recipientSocialHash))
          /\ prisma_stream' = [prisma_stream EXCEPT ![i].recipientAddress = userWalletAddress]
          /\ prisma_socialMapping' = TableAdd(prisma_socialMapping, stream.recipientSocialHash,
                 [socialType |-> stream.recipientSocialType,
                  socialHandle |-> stream.recipientSocialHandle,
                  walletAddress |-> userWalletAddress,
                  claimed |-> TRUE])
          /\ UNCHANGED requests

\* POST /claim/:streamId/execute, up to the rebinding transaction
claim_execute_begin(r, u, userEmail, bodyWallet, amount, i) ==
    /\ requests[r].pc = "idle"
    /\ i \in 1..Len(prisma_stream)
    /\ WalletAccepted(u, bodyWallet)
    /\ LET stream == prisma_stream[i]
           userWalletAddress == RequestWallet(u, bodyWallet)
       IN /\ isAuthorized(stream, userWalletAddress, userEmail)
          /\ IF /\ stream.recipientAddress # userWalletAddress
                /\ stream.onChainId > 0
                /\ stream.recipientSocialHash # Null
             THEN /\ update_stream_recipient(ADMIN, ADMIN, stream.onChainId,
                         userWalletAddress, hashToBytes(stream.recipientSocialHash))
                  /\ prisma_stream' =
                         [prisma_stream EXCEPT ![i].recipientAddress = userWalletAddress]
             ELSE UNCHANGED <<now, ledger, prisma_stream>>
          /\ requests' = [requests EXCEPT ![r] =
                 [pc |-> "claim", id |-> i, stream |-> stream,
                  userWalletAddress |-> userWalletAddress,
                  amount |-> amount, actualClaimAmount |-> 0]]
          /\ UNCHANGED prisma_socialMapping

\* the claimable amount the execute handler works with: the engine's view,
\* and the handler's own computation when the view fails
ExecuteClaimable(stream) ==
    LET view == IF stream.onChainId \in Ids THEN get_claimable(stream.onChainId, now)
                ELSE [err |-> E_STREAM_NOT_FOUND, val |-> 0]
        elapsed == IF now - stream.startTime > 0 THEN now - stream.startTime ELSE 0
        accrued == elapsed * stream.ratePerSecond
        remaining == stream.totalAmount - stream.claimedAmount
    IN IF view.err = OK THEN view.val
       ELSE IF accrued > remaining THEN remaining ELSE accrued

\* execute, the claim transaction: a failure ends the request
claim_execute_claim(r) ==
    /\ requests[r].pc = "claim"
    /\ LET req == requests[r]
           stream == req.stream
           claimableAmount == ExecuteClaimable(stream)
           claimAmount == IF req.amount # 0 THEN req.amount ELSE claimableAmount
           actualClaimAmount == IF claimAmount > claimableAmount
                                THEN claimableAmount ELSE claimAmount
       IN IF /\ claimableAmount > 0
             /\ stream.onChainId > 0
             /\ admin_claim_for_recipient_err(ADMIN, ADMIN, stream.onChainId,
                    req.userWalletAddress, actualClaimAmount) = OK
          THEN /\ admin_claim_for_recipient(ADMIN, ADMIN, stream.onChainId,
                      req.userWalletAddress, actualClaimAmount)
               /\ requests' = [requests EXCEPT ![r] =
                      [req EXCEPT !.pc = "write",
                                  !.actualClaimAmount = actualClaimAmount]]
               /\ UNCHANGED <<prisma_stream, prisma_socialMapping>>
          ELSE /\ requests' = [requests EXCEPT ![r] = NoRequest]
               /\ UNCHANGED <<now, ledger, prisma_stream, prisma_socialMapping>>

\* execute, the mirror write after the claim committed
claim_execute_write(r) ==
    /\ requests[r].pc = "write"
    /\ LET req == requests[r]
           stream == req.stream
           newClaimedAmount == stream.claimedAmount + req.actualClaimAmount
           isComplete == newClaimedAmount >= stream.totalAmount
       IN prisma_stream' = [prisma_stream EXCEPT
              ![req.id].claimedAmount = newClaimedAmount,
              ![req.id].status = IF isComplete THEN "COMPLETED" ELSE "ACTIVE"]
    /\ requests' = [requests EXCEPT ![r] = NoRequest]
    /\ UNCHANGED <<now, ledger, prisma_socialMapping>>

\* POST /claim/:streamId/confirm: the amount the client reports is added
claim_confirm(amountClaimed, i) ==
    /\ amountClaimed # 0
    /\ i \in 1..Len(prisma_stream)
    /\ LET stream == prisma_stream[i]
           newClaimedAmount == stream.claimedAmount + amountClaimed
           isComplete == newClaimedAmount >= stream.totalAmount
       IN /\ newClaimedAmount <= MaxMirrorClaimed
          /\ prisma_stream' = [prisma_stream EXCEPT
                 ![i].claimedAmount = newClaimedAmount,
                 ![i].status = IF isComplete THEN "COMPLETED" ELSE "ACTIVE"]
    /\ UNCHANGED <<now, ledger, prisma_socialMapping, requests>>

\* POST /streams/:id/cancel
stream_cancel(u, bodyWallet, i) ==
    /\ i \in 1..Len(prisma_stream)
    /\ LET stream == prisma_stream[i]
           userWalletAddress == RequestWallet(u, bodyWallet)
       IN /\ stream.senderAddress = userWalletAddress
          /\ stream.status = "ACTIVE"
          /\ stream.onChainId > 0
          /\ cancel_stream(ADMIN, ADMIN, stream.onChainId)
          /\ prisma_stream' = [prisma_stream EXCEPT ![i].status = "CANCELLED"]
    /\ UNCHANGED <<prisma_socialMapping, requests>>

\* --------------------------------------------------------------- clock
Tick ==
    /\ now < MaxTime
    /\ now' = now + 1
    /\ UNCHANGED <<ledger, mirror>>

\* ------------------------------------------------------ specifications
\* the state after initialize(admin), with the coins of the accounts given
InitWith(bal) ==
    /\ now = 1
    /\ streams = EmptyTable
    /\ next_stream_id = 1
    /\ escrow = 0
    /\ fee_collected = 0
    /\ social_to_address = EmptyTable
    /\ address_to_social = EmptyTable
    /\ balance = bal
    /\ coin_store = {ADMIN, "alice"}
    /\ user_index = [a \in Addr |-> NoIndex]
    /\ events = [created |-> 0, claimed |-> 0, cancelled |-> 0, updated |-> 0,
                 last_updated |-> NoEvent]
    /\ prisma_stream = << >>
    /\ prisma_socialMapping = EmptyTable
    /\ requests = [r \in 1..MaxRequests |-> NoRequest]

CreateStreamIn(RS, HS, AS, DS, SS) ==
    /\ \E sender \in {"alice"}, c \in ContractAddrs, r \in RS, h \in HS,
          a \in AS, d \in DS, s \in SS, m \in Messages :
           create_stream(sender, c, r, h, a, d, s, m)
    /\ UNCHANGED mirror

AdminCreateStreamIn(RS, HS, AS, DS, SS) ==
    /\ \E admin \in AdminSigners, c \in ContractAddrs, r \in RS, h \in HS,
          a \in AS, d \in DS, s \in SS, m \in Messages :
           admin_create_stream(admin, c, "alice", r, h, a, d, s, m)
    /\ UNCHANGED mirror

ClaimStream ==
    /\ \E r \in Addr, c \in ContractAddrs, id \in 1..MaxStreams, a \in ClaimAmounts :
           claim_stream(r, c, id, a)
    /\ UNCHANGED mirror

AdminClaimForRecipient ==
    /\ \E admin \in AdminSigners, c \in ContractAddrs, id \in 1..MaxStreams,
          r \in Addr, a \in ClaimAmounts :
           admin_claim_for_recipient(admin, c, id, r, a)
    /\ UNCHANGED mirror

CancelStream ==
    /\ \E s \in Addr, c \in ContractAddrs, id \in 1..MaxStreams :
           cancel_stream(s, c, id)
    /\ UNCHANGED mirror

AdminCancelStream ==
    /\ \E admin \in AdminSigners, c \in ContractAddrs, id \in 1..MaxStreams, s \in Addr :
           admin_cancel_stream(admin, c, id, s)
    /\ UNCHANGED mirror

WithdrawFees ==
    /\ \E admin \in AdminSigners, c \in ContractAddrs, a \in FeeAmounts :
           withdraw_fees(admin, c, a)
    /\ UNCHANGED mirror

RegisterRecipient ==
    /\ \E admin \in AdminSigners, h \in RegisterHashes, r \in Recipients :
           register_recipient(admin, h, r)
    /\ UNCHANGED mirror

UpdateStreamRecipientIn(RS, HS) ==
    /\ \E admin \in AdminSigners, c \in ContractAddrs, id \in 1..MaxStreams,
          r \in RS, h \in HS :
           update_stream_recipient(admin, c, id, r, h)
    /\ UNCHANGED mirror

\* Spec: one payer holds the coins for one stream; every creation input varies
Init ==
    \E payer \in {ADMIN, "alice"} :
        InitWith([a \in Addr |-> IF a = payer THEN 1001 ELSE 0])

CreateStream == CreateStreamIn(Recipients, Hashes, Amounts, Durations, StartTimes)

UpdateStreamRecipient == UpdateStreamRecipientIn(Recipients, Hashes)

AdminCreateStream == AdminCreateStreamIn(Recipients, Hashes, Amounts, Durations, StartTimes)

Next ==
    \/ Tick
    \/ CreateStream
    \/ AdminCreateStream
    \/ ClaimStream
    \/ AdminClaimForRecipient
    \/ CancelStream
    \/ AdminCancelStream
    \/ WithdrawFees
    \/ UpdateStreamRecipient

Spec == Init /\ [][Next]_vars

\* SpecTwo: both payers hold the coins for a stream each, so that up to
\* MaxStreams streams share the escrow; the creation inputs are one
\* recipient, one amount, one duration and the default start
InitTwo == InitWith([a \in Addr |-> IF a \in {ADMIN, "alice"} THEN 1000 ELSE 0])

CreateStreamTwo == CreateStreamIn({"bob"}, {EmptyHash}, {1000}, {2}, {0})

AdminCreateStreamTwo == AdminCreateStreamIn({"bob"}, {EmptyHash}, {1000}, {2}, {0})

NextTwo ==
    \/ Tick
    \/ CreateStreamTwo
    \/ AdminCreateStreamTwo
    \/ ClaimStream
    \/ AdminClaimForRecipient
    \/ CancelStream
    \/ AdminCancelStream
    \/ WithdrawFees

SpecTwo == InitTwo /\ [][NextTwo]_vars

\* SpecReg: the identity registry and the rebinding of up to MaxStreams
\* streams, at one clock value
CreateStreamReg == CreateStreamIn(Recipients, Hashes, {1000}, {2}, {0})

AdminCreateStreamReg == AdminCreateStreamIn(Recipients, Hashes, {1000}, {2}, {0})

NextReg ==
    \/ CreateStreamReg
    \/ AdminCreateStreamReg
    \/ RegisterRecipient
    \/ UpdateStreamRecipient

SpecReg == InitTwo /\ [][NextReg]_vars

\* SpecOrch: the backend's routes over the engine; the admin account pays
\* for the streams the backend creates
InitOrch == InitWith([a \in Addr |-> IF a = ADMIN THEN 1000 ELSE 0])

StreamCreateWallet ==
    \E a \in CreateAmounts, signed \in BOOLEAN :
        stream_create("alice", "wallet", "bob", a, 2, signed)

StreamCreateEmail ==
    \E v \in EmailInputs, a \in CreateAmounts, signed \in BOOLEAN :
        stream_create("alice", "email", v, a, 2, signed)

ClaimPrepare ==
    \E u \in Users, e \in EmailBodies, w \in WalletBodies, i \in 1..MaxRows :
        claim_prepare(u, e, w, i)

ClaimExecuteBegin ==
    \E r \in 1..MaxRequests, u \in Users, e \in EmailBodies, w \in WalletBodies,
       a \in AmountBodies, i \in 1..MaxRows :
        claim_execute_begin(r, u, e, w, a, i)

ClaimExecuteClaim == \E r \in 1..MaxRequests : claim_execute_claim(r)

ClaimExecuteWrite == \E r \in 1..MaxRequests : claim_execute_write(r)

ClaimConfirm ==
    \E a \in ConfirmAmounts, i \in 1..MaxRows : claim_confirm(a, i)

StreamCancel ==
    \E u \in Users, w \in WalletBodies, i \in 1..MaxRows : stream_cancel(u, w, i)

NextOrch ==
    \/ Tick
    \/ StreamCreateWallet
    \/ StreamCreateEmail
    \/ ClaimPrepare
    \/ ClaimExecuteBegin
    \/ ClaimExecuteClaim
    \/ ClaimExecuteWrite
    \/ ClaimConfirm
    \/ StreamCancel

SpecOrch == InitOrch /\ [][NextOrch]_vars

\* SpecCustody: the admin account funds up to MaxStreams streams on behalf of
\* senders, one of them (bob) without a coin store of his own
InitCustody == InitWith([a \in Addr |-> IF a = ADMIN THEN 2000 ELSE 0])

AdminCreateStreamOnBehalf ==
    /\ \E sender \in {"alice", "bob"}, r \in {"alice", "bob"} :
           admin_create_stream(ADMIN, ADMIN, sender, r, EmptyHash, 1000, 2, 0, "gift")
    /\ UNCHANGED mirror

NextCustody ==
    \/ Tick
    \/ AdminCreateStreamOnBehalf
    \/ ClaimStream
    \/ AdminClaimForRecipient
    \/ CancelStream
    \/ AdminCancelStream

SpecCustody == InitCustody /\ [][NextCustody]_vars

\* ---------------------------------------------------------------- claims
\* what an ACTIVE stream still owes, and the coins in existence
Remaining(id) == streams[id].total_amount - streams[id].claimed_amount
ActiveIds == {id \in Ids : streams[id].status = STATUS_ACTIVE}
Outstanding == SumOver([id \in Ids |-> Remaining(id)], ActiveIds)
TotalCoins == escrow + SumOver(balance, Addr)

\* C1  Conservation: in every state reached by create_stream,
\* admin_create_stream, claims, cancels, rebinds and fee withdrawals the
\* escrow equals fee_collected plus the sum of total_amount - claimed_amount
\* over the ACTIVE streams, and no step changes the number of coins held by
\* the escrow and the accounts together.
Conservation ==
    /\ [](escrow = fee_collected + Outstanding)
    /\ [][TotalCoins' = TotalCoins]_vars

C1_Witness ==
    \E id \in Ids :
        /\ streams[id].status = STATUS_CANCELLED
        /\ streams[id].claimed_amount > 0
        /\ fee_collected = 0
        /\ events.updated > 0

\* C2  Escrow solvency: in every reachable state the sum of
\* total_amount - claimed_amount over the ACTIVE streams is at most the
\* escrow, and no claim, cancel or fee withdrawal, whatever its arguments,
\* ends with the abort of an extraction that the escrow cannot cover.
EscrowSolvency ==
    /\ Outstanding <= escrow
    /\ \A admin \in AdminSigners, c \in ContractAddrs, id \in 1..MaxStreams, a \in Addr :
        /\ \A amt \in ClaimAmounts :
            /\ claim_stream_err(a, c, id, amt) # COIN_INSUFFICIENT_BALANCE
            /\ admin_claim_for_recipient_err(admin, c, id, a, amt) # COIN_INSUFFICIENT_BALANCE
        /\ cancel_stream_err(a, c, id) # COIN_INSUFFICIENT_BALANCE
        /\ admin_cancel_stream_err(admin, c, id, a) # COIN_INSUFFICIENT_BALANCE
        /\ \A amt \in FeeAmounts \cup (0..fee_collected) :
            withdraw_fees_err(admin, c, amt) # COIN_INSUFFICIENT_BALANCE

C2_Witness ==
    \E i \in Ids, j \in Ids :
        /\ streams[i].status = STATUS_CANCELLED
        /\ streams[j].status = STATUS_ACTIVE
        /\ streams[j].claimed_amount > 0
        /\ fee_collected < Fee(streams[i].total_amount) + Fee(streams[j].total_amount)

\* C3  For every stream, in every reachable state,
\* 0 <= claimed_amount <= total_amount.
ClaimedWithinTotal ==
    \A id \in Ids :
        /\ 0 <= streams[id].claimed_amount
        /\ streams[id].claimed_amount <= streams[id].total_amount

C3_Witness ==
    \E id \in Ids :
        /\ streams[id].claimed_amount = streams[id].total_amount
        /\ events.claimed >= 2

\* C4  Monotonic claim: no step (claim, admin claim, cancel, rebind, fee
\* withdrawal, creation) decreases the claimed_amount of a stream.
MonotonicClaim ==
    [][\A id \in Ids : streams'[id].claimed_amount >= streams[id].claimed_amount]_vars

C4_Witness ==
    \E id \in Ids :
        /\ events.claimed >= 2
        /\ events.updated > 0
        /\ streams[id].status = STATUS_CANCELLED

\* C5  Claimable boundedness: for every stream in every reachable state and
\* every clock value t from now on, the claimable computation yields a value
\* v with 0 <= v <= total_amount - claimed_amount.
ClaimableBounded ==
    \A id \in Ids, t \in now..MaxTime :
        LET c == get_claimable(id, t)
        IN /\ c.err = OK
           /\ 0 <= c.val
           /\ c.val <= Remaining(id)

\* C6  Claim authorization: a claim (claim_stream by a signer,
\* admin_claim_for_recipient naming an address) commits only if the address
\* is the stream's recipient and the stream is ACTIVE; on an existing stream
\* a claim naming another address aborts as permission denied; and a step
\* that raises a stream's claimed_amount pays exactly that raise, out of
\* escrow, to the address that was the stream's recipient before the step.
ClaimPaysRecipient ==
    \A id \in Ids :
        streams'[id].claimed_amount # streams[id].claimed_amount =>
            LET d == streams'[id].claimed_amount - streams[id].claimed_amount
                to == streams[id].recipient
            IN /\ balance' = [balance EXCEPT ![to] = @ + d]
               /\ escrow' = escrow - d
               /\ streams'[id].recipient = to

ClaimGuard ==
    \A admin \in AdminSigners, c \in ContractAddrs, id \in 1..MaxStreams,
       a \in Addr, amt \in ClaimAmounts :
        /\ claim_stream_err(a, c, id, amt) = OK =>
            /\ id \in Ids
            /\ streams[id].recipient = a
            /\ streams[id].status = STATUS_ACTIVE
        /\ admin_claim_for_recipient_err(admin, c, id, a, amt) = OK =>
            /\ id \in Ids
            /\ streams[id].recipient = a
            /\ streams[id].status = STATUS_ACTIVE
        /\ (id \in Ids /\ streams[id].recipient # a) =>
            /\ claim_stream_err(a, ADMIN, id, amt) = E_NOT_STREAM_RECIPIENT
            /\ ErrKind(claim_stream_err(a, ADMIN, id, amt)) = "permission_denied"
            /\ ErrKind(admin_claim_for_recipient_err(admin, ADMIN, id, a, amt))
                   = "permission_denied"

ClaimAuthorization ==
    /\ []ClaimGuard
    /\ [][ClaimPaysRecipient]_vars

C6_Witness ==
    \E id \in Ids :
        /\ streams[id].status = STATUS_ACTIVE
        /\ streams[id].claimed_amount > 0
        /\ balance[streams[id].recipient] >= streams[id].claimed_amount
        /\ streams[id].recipient # streams[id].sender

\* C7  Rebind preserves claim authorization: when the last rebind moved a
\* stream from address P to another address R, a claim from P (signed by P,
\* or by the admin naming P) aborts as not the stream's recipient, and a
\* claim from R made while the claimable amount is positive commits.
RebindPreservesClaimAuthorization ==
    LET e == events.last_updated IN
    (e.stream_id # 0 /\ e.old_recipient # e.new_recipient) =>
        LET id == e.stream_id
            c == calculate_claimable_internal(streams[id], now)
        IN \A amt \in ClaimAmounts :
            /\ claim_stream_err(e.old_recipient, ADMIN, id, amt) = E_NOT_STREAM_RECIPIENT
            /\ admin_claim_for_recipient_err(ADMIN, ADMIN, id, e.old_recipient, amt)
                   = E_NOT_STREAM_RECIPIENT
            /\ (c.err = OK /\ c.val > 0) =>
                /\ claim_stream_err(e.new_recipient, ADMIN, id, amt) = OK
                /\ admin_claim_for_recipient_err(ADMIN, ADMIN, id, e.new_recipient, amt) = OK

C7_Witness ==
    LET e == events.last_updated IN
    /\ e.stream_id # 0
    /\ e.old_recipient # e.new_recipient
    /\ calculate_claimable_internal(streams[e.stream_id], now).val > 0
    /\ balance[e.new_recipient] > 0

\* C8  Registry agreement: every stream with a non-empty identity hash h has
\* the recipient the registry binds to h (stated for the hashes that are
\* bound; a stream whose hash is not bound at all is not held against it).
RegistryAgreement ==
    \A id \in Ids :
        LET h == streams[id].recipient_social_hash
        IN (h # EmptyHash /\ h \in DOMAIN social_to_address) =>
               social_to_address[h] = streams[id].recipient

\* C9  Cancellation split: a step that cancels an ACTIVE stream pays the
\* recipient the claimable amount at the time of the call and the sender
\* total_amount - claimed_amount - claimable, both out of escrow, sets the
\* status to CANCELLED and leaves every other field of the stream,
\* claimed_amount and last_claim_time included, as it was; every emitted
\* cancellation event belongs to such a step.
CancelSplitStep ==
    /\ \A id \in Ids :
        (streams[id].status = STATUS_ACTIVE /\ streams'[id].status = STATUS_CANCELLED) =>
            LET st == streams[id]
                c == calculate_claimable_internal(st, now).val
                r == st.total_amount - st.claimed_amount - c
            IN /\ c >= 0
               /\ r >= 0
               /\ balance' = [a \in Addr |->
                      balance[a] + (IF a = st.recipient THEN c ELSE 0)
                                 + (IF a = st.sender THEN r ELSE 0)]
               /\ escrow' = escrow - (st.total_amount - st.claimed_amount)
               /\ streams'[id] = [st EXCEPT !.status = STATUS_CANCELLED]
               /\ events'.cancelled = events.cancelled + 1
    /\ events'.cancelled # events.cancelled =>
        \E id \in Ids :
            /\ streams[id].status = STATUS_ACTIVE
            /\ streams'[id].status = STATUS_CANCELLED

CancellationSplit == [][CancelSplitStep]_vars

C9_Witness ==
    \E id \in Ids :
        /\ streams[id].status = STATUS_CANCELLED
        /\ streams[id].claimed_amount > 0
        /\ balance[streams[id].recipient] > streams[id].claimed_amount
        /\ balance[streams[id].sender] > 1

\* C10  Cancel preconditions: a cancel (cancel_stream by a signer,
\* admin_cancel_stream naming an address) commits only if the address is the
\* stream's sender and the stream is ACTIVE; on an existing stream a cancel
\* by another address aborts as permission denied and a cancel of a
\* COMPLETED or CANCELLED stream by its sender aborts as invalid state; the
\* cancellation events are as many as the CANCELLED streams, so no stream is
\* cancelled twice.
CancelPreconditions ==
    /\ \A admin \in AdminSigners, c \in ContractAddrs, id \in 1..MaxStreams, a \in Addr :
        /\ cancel_stream_err(a, c, id) = OK =>
            /\ id \in Ids
            /\ streams[id].sender = a
            /\ streams[id].status = STATUS_ACTIVE
        /\ admin_cancel_stream_err(admin, c, id, a) = OK =>
            /\ id \in Ids
            /\ streams[id].sender = a
            /\ streams[id].status = STATUS_ACTIVE
        /\ (id \in Ids /\ streams[id].sender # a) =>
            /\ cancel_stream_err(a, ADMIN, id) = E_NOT_STREAM_SENDER
            /\ ErrKind(cancel_stream_err(a, ADMIN, id)) = "permission_denied"
            /\ ErrKind(admin_cancel_stream_err(admin, ADMIN, id, a)) = "permission_denied"
        /\ (id \in Ids /\ streams[id].sender = a
                /\ streams[id].status \in {STATUS_COMPLETED, STATUS_CANCELLED}) =>
            /\ ErrKind(cancel_stream_err(a, ADMIN, id)) = "invalid_state"
            /\ ErrKind(admin_cancel_stream_err(ADMIN, ADMIN, id, a)) = "invalid_state"
    /\ events.cancelled = Cardinality({id \in Ids : streams[id].status = STATUS_CANCELLED})

C10_Witness ==
    \E id \in Ids :
        /\ streams[id].status = STATUS_CANCELLED
        /\ events.cancelled = 1
        /\ events.claimed > 0

\* C11  Terminal states are absorbing: a stream's status changes only from
\* ACTIVE to COMPLETED or from ACTIVE to CANCELLED; on a COMPLETED or
\* CANCELLED stream no claim and no cancel commits, whoever makes it, no step
\* changes its status or claimed_amount, and coins leave the escrow only for
\* an ACTIVE stream, a fee withdrawal or arrive with a creation; no stream is
\* ever PAUSED.
TerminalIds == {id \in Ids : streams[id].status \in {STATUS_COMPLETED, STATUS_CANCELLED}}

TerminalState ==
    /\ \A id \in Ids : streams[id].status \in {STATUS_ACTIVE, STATUS_COMPLETED, STATUS_CANCELLED}
    /\ \A id \in TerminalIds, admin \in AdminSigners, c \in ContractAddrs,
          a \in Addr, amt \in ClaimAmounts :
        /\ claim_stream_err(a, c, id, amt) # OK
        /\ admin_claim_for_recipient_err(admin, c, id, a, amt) # OK
        /\ cancel_stream_err(a, c, id) # OK
        /\ admin_cancel_stream_err(admin, c, id, a) # OK

TerminalStep ==
    /\ \A id \in Ids :
        /\ streams'[id].status # streams[id].status =>
            /\ streams[id].status = STATUS_ACTIVE
            /\ streams'[id].status \in {STATUS_COMPLETED, STATUS_CANCELLED}
        /\ id \in TerminalIds =>
            /\ streams'[id].status = streams[id].status
            /\ streams'[id].claimed_amount = streams[id].claimed_amount
    /\ (escrow' # escrow \/ balance' # balance) =>
        \/ fee_collected' # fee_collected
        \/ next_stream_id' # next_stream_id
        \/ \E j \in ActiveIds : streams'[j] # streams[j]

TerminalAbsorbing == []TerminalState /\ [][TerminalStep]_vars

C11_Witness ==
    \E id \in Ids :
        /\ streams[id].status = STATUS_COMPLETED
        /\ now > streams[id].last_claim_time
        /\ events.updated > 0

\* C12  Claim amount rule: a committed claim (claim_stream or
\* admin_claim_for_recipient) with requested amount r on a stream whose
\* claimable amount is c has c > 0, adds r to claimed_amount when 0 < r <= c
\* and c otherwise, pays that amount out of escrow to the recipient and sets
\* last_claim_time to the current time; with c > 0 the recipient's claim
\* commits for every r, larger than c or not.
ClaimRule(r, c) == IF 0 < r /\ r <= c THEN r ELSE c

ClaimAmountStep ==
    events'.claimed # events.claimed =>
        \A a \in Addr, id \in Ids, r \in ClaimAmounts, admin \in AdminSigners :
            (\/ claim_stream(a, ADMIN, id, r)
             \/ admin_claim_for_recipient(admin, ADMIN, id, a, r)) =>
                LET c == calculate_claimable_internal(streams[id], now).val
                    paid == ClaimRule(r, c)
                IN /\ c > 0
                   /\ streams'[id].claimed_amount = streams[id].claimed_amount + paid
                   /\ streams'[id].last_claim_time = now
                   /\ balance'[a] = balance[a] + paid
                   /\ escrow' = escrow - paid

OverRequestCommits ==
    \A id \in Ids, r \in ClaimAmounts :
        LET st == streams[id]
            c == calculate_claimable_internal(st, now)
        IN (st.status = STATUS_ACTIVE /\ c.err = OK /\ c.val > 0) =>
            /\ claim_stream_err(st.recipient, ADMIN, id, r) = OK
            /\ admin_claim_for_recipient_err(ADMIN, ADMIN, id, st.recipient, r) = OK

ClaimAmountRule == []OverRequestCommits /\ [][ClaimAmountStep]_vars

C12_Witness ==
    \E id \in Ids :
        /\ events.claimed = 2
        /\ streams[id].claimed_amount = 500
        /\ streams[id].last_claim_time = now
        /\ streams[id].status = STATUS_ACTIVE

\* C13  Nothing to do: on an ACTIVE stream whose claimable amount is 0 a
\* claim by the recipient, or by the admin for the recipient, aborts with
\* E_ZERO_CLAIMABLE; and every step that changes a stream's claimed_amount or
\* last_claim_time starts where its claimable amount is positive.
ZeroClaimableAborts ==
    \A id \in Ids, amt \in ClaimAmounts :
        LET st == streams[id]
            c == calculate_claimable_internal(st, now)
        IN (st.status = STATUS_ACTIVE /\ c.err = OK /\ c.val = 0) =>
            /\ claim_stream_err(st.recipient, ADMIN, id, amt) = E_ZERO_CLAIMABLE
            /\ admin_claim_for_recipient_err(ADMIN, ADMIN, id, st.recipient, amt)
                   = E_ZERO_CLAIMABLE

ClaimNeedsClaimable ==
    \A id \in Ids :
        (\/ streams'[id].claimed_amount # streams[id].claimed_amount
         \/ streams'[id].last_claim_time # streams[id].last_claim_time
         \/ events'.claimed # events.claimed) =>
            calculate_claimable_internal(streams[id], now).val > 0

NothingToDo == []ZeroClaimableAborts /\ [][ClaimNeedsClaimable]_vars

C13_Witness ==
    \E id \in Ids :
        /\ streams[id].status = STATUS_ACTIVE
        /\ streams[id].claimed_amount > 0
        /\ streams[id].last_claim_time = now
        /\ calculate_claimable_internal(streams[id], now) = [err |-> OK, val |-> 0]
        /\ claim_stream_err(streams[id].recipient, ADMIN, id, 0) = E_ZERO_CLAIMABLE

\* C14 (as stated)  Once a stream's claimed_amount equals total_amount, a
\* further claim by its recipient aborts with the zero-claimable error.
CompletedClaimIsNothingToDo ==
    \A id \in Ids, amt \in ClaimAmounts :
        streams[id].claimed_amount = streams[id].total_amount =>
            claim_stream_err(streams[id].recipient, ADMIN, id, amt) = E_ZERO_CLAIMABLE

\* C14 (amended)  Idempotent-at-completion: once a stream's claimed_amount
\* equals total_amount the stream is COMPLETED; every further claim on it
\* aborts, a claim by or for its recipient with E_STREAM_NOT_ACTIVE (invalid
\* state), and no step changes its claimed_amount or status again.
CompletedClaimAborts ==
    \A id \in Ids :
        streams[id].claimed_amount = streams[id].total_amount =>
            /\ streams[id].status = STATUS_COMPLETED
            /\ \A admin \in AdminSigners, c \in ContractAddrs, a \in Addr, amt \in ClaimAmounts :
                /\ claim_stream_err(a, c, id, amt) # OK
                /\ admin_claim_for_recipient_err(admin, c, id, a, amt) # OK
            /\ \A amt \in ClaimAmounts :
                /\ claim_stream_err(streams[id].recipient, ADMIN, id, amt) = E_STREAM_NOT_ACTIVE
                /\ admin_claim_for_recipient_err(ADMIN, ADMIN, id, streams[id].recipient, amt)
                       = E_STREAM_NOT_ACTIVE
                /\ ErrKind(E_STREAM_NOT_ACTIVE) = "invalid_state"

CompletedStaysPaid ==
    \A id \in Ids :
        streams[id].claimed_amount = streams[id].total_amount =>
            /\ streams'[id].claimed_amount = streams[id].claimed_amount
            /\ streams'[id].status = streams[id].status
            /\ balance'[streams[id].recipient] # balance[streams[id].recipient] =>
                   \E j \in ActiveIds : streams'[j] # streams[j]

IdempotentAtCompletion == []CompletedClaimAborts /\ [][CompletedStaysPaid]_vars

C14_Witness ==
    \E id \in Ids :
        /\ streams[id].claimed_amount = streams[id].total_amount
        /\ now > streams[id].last_claim_time
        /\ balance[streams[id].recipient] = streams[id].total_amount

\* C15  Creation result: a committed create_stream or admin_create_stream
\* with amount a, duration d and start s takes a from the payer into escrow,
\* adds floor(a * 25 / 10000) to fee_collected and adds, under the next id,
\* an ACTIVE stream with total_amount = a - fee, rate_per_second =
\* floor(total_amount / d), start_time = s (the current time when s = 0),
\* end_time = start_time + d, claimed_amount = 0 and last_claim_time =
\* start_time; a = 1000 gives fee 2 and total_amount 998.
CreationResultOf(payer, a, d, s) ==
    LET id == next_stream_id
        fee == (a * 25) \div 10000
        start == IF s = 0 THEN now ELSE s
    IN /\ a > 0
       /\ d > 0
       /\ escrow' = escrow + a
       /\ balance' = [balance EXCEPT ![payer] = @ - a]
       /\ fee_collected' = fee_collected + fee
       /\ DOMAIN streams' = Ids \cup {id}
       /\ \A j \in Ids : streams'[j] = streams[j]
       /\ streams'[id].total_amount = a - fee
       /\ streams'[id].rate_per_second = (a - fee) \div d
       /\ streams'[id].start_time = start
       /\ streams'[id].end_time = start + d
       /\ streams'[id].claimed_amount = 0
       /\ streams'[id].last_claim_time = start
       /\ streams'[id].status = STATUS_ACTIVE
       /\ a = 1000 => (fee = 2 /\ streams'[id].total_amount = 998)

CreationResultStep ==
    next_stream_id' # next_stream_id =>
      /\ \E admin \in AdminSigners, r \in Recipients, h \in Hashes, a \in Amounts,
            d \in Durations, s \in StartTimes, m \in Messages :
            \/ create_stream("alice", ADMIN, r, h, a, d, s, m)
            \/ admin_create_stream(admin, ADMIN, "alice", r, h, a, d, s, m)
      /\ \A admin \in AdminSigners, r \in Recipients, h \in Hashes, a \in Amounts,
           d \in Durations, s \in StartTimes, m \in Messages :
            /\ create_stream("alice", ADMIN, r, h, a, d, s, m) =>
                   CreationResultOf("alice", a, d, s)
            /\ admin_create_stream(admin, ADMIN, "alice", r, h, a, d, s, m) =>
                   CreationResultOf(admin, a, d, s)

CreationResult == [][CreationResultStep]_vars

C15_Witness ==
    \E id \in Ids :
        /\ streams[id].total_amount = 998
        /\ streams[id].rate_per_second = 499
        /\ streams[id].start_time = 3
        /\ streams[id].end_time = 5
        /\ fee_collected = 2
        /\ escrow = 1000

\* C16  A create_stream or admin_create_stream call with amount = 0 or
\* duration = 0 aborts with E_INVALID_AMOUNT or E_INVALID_DURATION (invalid
\* argument), whoever signs and whatever the other arguments; every step that
\* changes the next stream id or the stream table, or that takes coins from
\* an account, has moved a positive amount into a stream of positive
\* duration.
ZeroCreateRejected ==
    \A x \in Addr, c \in ContractAddrs, a \in Amounts, d \in Durations :
        (a = 0 \/ d = 0) =>
            /\ create_stream_err(x, c, a, d) \in {E_INVALID_AMOUNT, E_INVALID_DURATION}
            /\ admin_create_stream_err(x, c, a, d) \in {E_INVALID_AMOUNT, E_INVALID_DURATION}
            /\ ErrKind(create_stream_err(x, c, a, d)) = "invalid_argument"
            /\ ErrKind(admin_create_stream_err(x, c, a, d)) = "invalid_argument"

CreateMovesFunds ==
    (\/ next_stream_id' # next_stream_id
     \/ DOMAIN streams' # DOMAIN streams
     \/ \E x \in Addr : balance'[x] < balance[x]) =>
        /\ next_stream_id' = next_stream_id + 1
        /\ escrow' > escrow
        /\ streams'[next_stream_id].end_time > streams'[next_stream_id].start_time

CreateRejectsZero == []ZeroCreateRejected /\ [][CreateMovesFunds]_vars

C16_Witness ==
    /\ next_stream_id = 2
    /\ streams[1].total_amount > 0
    /\ create_stream_err("alice", ADMIN, 0, 2) = E_INVALID_AMOUNT
    /\ create_stream_err("alice", ADMIN, 1000, 0) = E_INVALID_DURATION
    /\ admin_create_stream_err(ADMIN, ADMIN, 0, 0) = E_INVALID_AMOUNT

\* C17  A rebind that presents a hash other than the stream's
\* recipient_social_hash aborts, with E_SOCIAL_HASH_MISMATCH when the admin
\* signs it, so that the stream's recipient, both registry tables and the
\* events are as before; every step that changes a recipient, a registry
\* table or the count of RecipientUpdatedEvents emits one event whose hash is
\* the hash recorded on the stream it names.
HashMismatchAborts ==
    \A id \in Ids, r \in Recipients, h \in Hashes, admin \in AdminSigners, c \in ContractAddrs :
        h # streams[id].recipient_social_hash =>
            /\ update_stream_recipient_err(admin, c, id, r, h) # OK
            /\ update_stream_recipient_err(ADMIN, ADMIN, id, r, h) = E_SOCIAL_HASH_MISMATCH

RebindPresentsStreamHash ==
    (\/ \E id \in Ids : streams'[id].recipient # streams[id].recipient
     \/ registry' # registry
     \/ events'.updated # events.updated
     \/ events'.last_updated # events.last_updated) =>
        LET e == events'.last_updated IN
        /\ events'.updated = events.updated + 1
        /\ e.stream_id \in Ids
        /\ e.social_hash = streams[e.stream_id].recipient_social_hash

WalletStreamNeverRebound ==
    [][\A id \in Ids :
          streams[id].recipient_social_hash = EmptyHash =>
              streams'[id].recipient = streams[id].recipient]_vars

\* C19  The identity-claim transition is one-way: once the first rebind has
\* moved a stream with a non-empty identity hash from its creation-time
\* recipient to another address, no step makes that stream's recipient the
\* creation-time address again.
IdentityClaimOneWay ==
    [][\A id \in Ids :
          LET e == events.last_updated IN
          (/\ events.updated = 1
           /\ e.stream_id = id
           /\ e.social_hash # EmptyHash
           /\ e.old_recipient # e.new_recipient) =>
              streams'[id].recipient # e.old_recipient]_vars

\* C20  Rebind effect: a committed rebind of a stream with hash h from o to
\* n sets the stream's recipient to n and changes no other field of it and
\* no other stream; afterwards the registry maps h to n and n to h and, when
\* o # n, has no reverse entry for o; escrow, fee_collected, the balances and
\* the next stream id are as before; and a recipient changes in no other
\* step.
RebindEffectStep ==
    /\ events'.updated # events.updated =>
        LET e == events'.last_updated
            id == e.stream_id
            o == e.old_recipient
            n == e.new_recipient
            h == e.social_hash
        IN /\ id \in Ids
           /\ o = streams[id].recipient
           /\ h = streams[id].recipient_social_hash
           /\ streams'[id] = [streams[id] EXCEPT !.recipient = n]
           /\ \A j \in Ids \ {id} : streams'[j] = streams[j]
           /\ h \in DOMAIN social_to_address'
           /\ social_to_address'[h] = n
           /\ n \in DOMAIN address_to_social'
           /\ address_to_social'[n] = h
           /\ o # n => o \notin DOMAIN address_to_social'
           /\ escrow' = escrow
           /\ fee_collected' = fee_collected
           /\ balance' = balance
           /\ next_stream_id' = next_stream_id
    /\ (\E id \in Ids : streams'[id].recipient # streams[id].recipient) =>
           events'.updated # events.updated

RebindEffect == [][RebindEffectStep]_vars

C20_Witness ==
    LET e == events.last_updated IN
    /\ events.updated = 2
    /\ Cardinality(Ids) = 2
    /\ e.old_recipient # e.new_recipient
    /\ e.social_hash # EmptyHash
    /\ social_to_address[e.social_hash] = e.new_recipient
    /\ e.old_recipient \notin DOMAIN address_to_social

\* C21  The listed failure modes of a rebind are the only ones: a rebind
\* signed by the admin, of an existing stream, that presents the stream's
\* non-empty identity hash commits for every new address, whatever the
\* registry holds.
RebindOnlyListedFailures ==
    \A id \in Ids, r \in Recipients :
        streams[id].recipient_social_hash # EmptyHash =>
            update_stream_recipient_err(ADMIN, ADMIN, id, r,
                                        streams[id].recipient_social_hash) = OK

\* C22  In every reachable state a stream with claimed_amount = total_amount
\* is COMPLETED or CANCELLED, and no ACTIVE stream has claimed_amount =
\* total_amount.
CompletedWhenFullyClaimed ==
    \A id \in Ids :
        /\ streams[id].claimed_amount = streams[id].total_amount =>
               streams[id].status \in {STATUS_COMPLETED, STATUS_CANCELLED}
        /\ streams[id].status = STATUS_ACTIVE =>
               streams[id].claimed_amount # streams[id].total_amount

C22_Witness ==
    \E id \in Ids :
        /\ streams[id].status = STATUS_COMPLETED
        /\ streams[id].claimed_amount = streams[id].total_amount
        /\ events.claimed = 1

\* C23  For every stream in every reachable state, start_time <= end_time and
\* rate_per_second * (end_time - start_time) <= total_amount.
RateWithinTotal ==
    \A id \in Ids :
        /\ streams[id].start_time <= streams[id].end_time
        /\ streams[id].rate_per_second * (streams[id].end_time - streams[id].start_time)
               <= streams[id].total_amount

C23_Witness ==
    \E id \in Ids :
        /\ streams[id].rate_per_second > 0
        /\ streams[id].rate_per_second * (streams[id].end_time - streams[id].start_time)
               < streams[id].total_amount
        /\ streams[id].claimed_amount > 0

\* C24  Accrual calculator against its reference definition: for every
\* stream of every reachable state and every clock value t from now on, the
\* claimable computation returns 0 if the status is not ACTIVE, 0 if
\* t < start_time, and otherwise min((min(t, end_time) - last_claim_time) *
\* rate_per_second, total_amount - claimed_amount).
Min(a, b) == IF a < b THEN a ELSE b

ReferenceClaimable(st, t) ==
    IF st.status # STATUS_ACTIVE THEN 0
    ELSE IF t < st.start_time THEN 0
    ELSE Min((Min(t, st.end_time) - st.last_claim_time) * st.rate_per_second,
             st.total_amount - st.claimed_amount)

CalculatorMatchesReference ==
    \A id \in Ids, t \in now..MaxTime :
        LET c == get_claimable(id, t)
        IN /\ c.err = OK
           /\ c.val = ReferenceClaimable(streams[id], t)

\* C25  The accrual window is never negative: every ACTIVE stream has
\* start_time <= last_claim_time <= end_time, also after a claim made later
\* than end_time that takes less than the full claimable amount.
AccrualWindowNonNegative ==
    \A id \in ActiveIds :
        /\ streams[id].start_time <= streams[id].last_claim_time
        /\ streams[id].last_claim_time <= streams[id].end_time

\* C26  All-or-nothing: every step carries the complete effects of exactly
\* one operation.  A step emits at most one event; a creation event comes
\* with the new stream, the next id, the coins taken into escrow and the
\* fee; a claim event with the raise of claimed_amount, last_claim_time and
\* the payment; a cancellation event with the status change and the two
\* payments; a rebind event with the recipient and both registry entries;
\* and a step without event changes no stream, no registry entry and no id,
\* and moves coins only as a fee withdrawal, which lowers fee_collected and
\* the escrow and raises the admin's balance by the same amount.
EventsEmitted(ev1, ev2) ==
    (ev2.created - ev1.created) + (ev2.claimed - ev1.claimed)
        + (ev2.cancelled - ev1.cancelled) + (ev2.updated - ev1.updated)

AllOrNothingStep ==
    /\ EventsEmitted(events, events') \in {0, 1}
    /\ events'.created # events.created <=> next_stream_id' # next_stream_id
    /\ events'.created # events.created =>
        LET a == escrow' - escrow IN
        /\ a > 0
        /\ DOMAIN streams' = Ids \cup {next_stream_id}
        /\ next_stream_id' = next_stream_id + 1
        /\ fee_collected' = fee_collected + Fee(a)
        /\ \E p \in Addr : balance' = [balance EXCEPT ![p] = @ - a]
        /\ registry' = registry
    /\ events'.claimed # events.claimed =>
        \E id \in Ids :
            LET d == streams'[id].claimed_amount - streams[id].claimed_amount IN
            /\ d > 0
            /\ streams'[id].last_claim_time = now
            /\ escrow' = escrow - d
            /\ balance' = [balance EXCEPT ![streams[id].recipient] = @ + d]
            /\ <<fee_collected', next_stream_id', registry'>>
                   = <<fee_collected, next_stream_id, registry>>
    /\ events'.cancelled # events.cancelled =>
        \E id \in Ids :
            /\ streams[id].status = STATUS_ACTIVE
            /\ streams'[id].status = STATUS_CANCELLED
            /\ escrow' = escrow - Remaining(id)
            /\ TotalCoins' = TotalCoins
            /\ <<fee_collected', next_stream_id', registry'>>
                   = <<fee_collected, next_stream_id, registry>>
    /\ events'.updated # events.updated =>
        LET e == events'.last_updated IN
        /\ streams'[e.stream_id].recipient = e.new_recipient
        /\ social_to_address'[e.social_hash] = e.new_recipient
        /\ address_to_social'[e.new_recipient] = e.social_hash
        /\ <<escrow', fee_collected', next_stream_id', balance'>>
               = <<escrow, fee_collected, next_stream_id, balance>>
    /\ EventsEmitted(events, events') = 0 =>
        /\ <<streams', registry', next_stream_id', events'>>
               = <<streams, registry, next_stream_id, events>>
        /\ \/ <<escrow', fee_collected', balance'>> = <<escrow, fee_collected, balance>>
           \/ \E x \in 1..fee_collected :
                /\ fee_collected' = fee_collected - x
                /\ escrow' = escrow - x
                /\ balance' = [balance EXCEPT ![ADMIN] = @ + x]

AllOrNothing == [][AllOrNothingStep]_vars

C26_Witness ==
    /\ events.created = 1
    /\ events.claimed >= 1
    /\ events.cancelled = 1
    /\ events.updated >= 1
    /\ fee_collected = 0
    /\ escrow = 0

\* C27  Stream ids are sequential and the table is append-only: the ids in
\* use are 1 .. next_stream_id - 1, each stream records its own id, the
\* stream count query equals the number of streams and of creation events;
\* a step that adds a stream adds exactly the stream with the next id, and
\* no step removes a stream or changes the id of one.
SequentialIdsState ==
    /\ Ids = 1..(next_stream_id - 1)
    /\ \A id \in Ids : streams[id].id = id
    /\ get_stream_count = Cardinality(Ids)
    /\ get_stream_count = events.created

AppendOnlyStep ==
    /\ Ids \subseteq DOMAIN streams'
    /\ next_stream_id' >= next_stream_id
    /\ \A id \in Ids : streams'[id].id = streams[id].id
    /\ DOMAIN streams' # Ids =>
        /\ DOMAIN streams' = Ids \cup {next_stream_id}
        /\ next_stream_id' = next_stream_id + 1
        /\ streams'[next_stream_id].id = Cardinality(Ids) + 1

SequentialIds == []SequentialIdsState /\ [][AppendOnlyStep]_vars

C27_Witness ==
    /\ next_stream_id = 3
    /\ streams[1].status = STATUS_CANCELLED
    /\ streams[2].status = STATUS_COMPLETED
    /\ get_stream_count = 2

\* C28  Immutable stream fields: no step changes the id, sender,
\* recipient_social_hash, total_amount, rate_per_second, start_time,
\* end_time, message or created_at of an existing stream.
ImmutableFields(st) ==
    <<st.id, st.sender, st.recipient_social_hash, st.total_amount, st.rate_per_second,
      st.start_time, st.end_time, st.message, st.created_at>>

ImmutableStreamFields ==
    [][\A id \in Ids : ImmutableFields(streams'[id]) = ImmutableFields(streams[id])]_vars

C28_Witness ==
    \E id \in Ids :
        /\ events.updated = 2
        /\ events.claimed >= 1
        /\ streams[id].status = STATUS_COMPLETED
        /\ streams[id].recipient_social_hash # EmptyHash

\* C29: identity verification precedes rebind.  Whenever a step changes the
\* recipient of a stream, in the engine or in the mirror, the new recipient
\* is a wallet of a user whose verified email is the one the stream is
\* addressed to; a user who only supplies that email in the request body
\* never becomes the recipient.
OwnsStreamEmail(wallet, social_hash) ==
    \E u \in Users : /\ verifyUserWallet(u, wallet)
                     /\ createSocialHash("email", VerifiedEmail[u]) = social_hash

RebindForVerifiedOwnerStep ==
    /\ \A id \in Ids :
           streams'[id].recipient # streams[id].recipient
               => OwnsStreamEmail(streams'[id].recipient, streams[id].recipient_social_hash)
    /\ \A i \in 1..Len(prisma_stream) :
           prisma_stream'[i].recipientAddress # prisma_stream[i].recipientAddress
               => OwnsStreamEmail(prisma_stream'[i].recipientAddress,
                                  hashToBytes(prisma_stream[i].recipientSocialHash))

RebindOnlyForVerifiedOwner == [][RebindForVerifiedOwnerStep]_vars

\* C30: mirror write ordering.  Every step that writes a stream state change
\* to the mirror finds the change committed in the engine: a new row names
\* a stream the engine holds, a new recipient is the engine's recipient, a
\* claimed amount is not above the engine's, and a CANCELLED or COMPLETED
\* status is the engine's status.
EngineStatus(status) ==
    IF status = "CANCELLED" THEN STATUS_CANCELLED
    ELSE IF status = "COMPLETED" THEN STATUS_COMPLETED
    ELSE STATUS_ACTIVE

MirrorWriteCommitted(old, new) ==
    /\ new.onChainId \in DOMAIN streams'
    /\ new.recipientAddress # old.recipientAddress
           => streams'[new.onChainId].recipient = new.recipientAddress
    /\ new.claimedAmount > old.claimedAmount
           => new.claimedAmount <= streams'[new.onChainId].claimed_amount
    /\ (new.status # old.status /\ new.status \in {"CANCELLED", "COMPLETED"})
           => streams'[new.onChainId].status = EngineStatus(new.status)

MirrorWriteOrderingStep ==
    \A i \in 1..Len(prisma_stream') :
        IF i > Len(prisma_stream)
        THEN prisma_stream'[i].onChainId \in DOMAIN streams'
        ELSE prisma_stream'[i] # prisma_stream[i]
                 => MirrorWriteCommitted(prisma_stream[i], prisma_stream'[i])

MirrorWriteOrdering == [][MirrorWriteOrderingStep]_vars

\* C31: mirror reconciliation.  Once no execute request is in flight, every
\* mirror row of an engine stream carries the engine's claimed amount,
\* recipient and status of that stream.
NoRequestInFlight == \A r \in 1..MaxRequests : requests[r].pc = "idle"

RowReconciled(row) ==
    LET stream == streams[row.onChainId]
    IN /\ row.claimedAmount = stream.claimed_amount
       /\ row.recipientAddress = stream.recipient
       /\ EngineStatus(row.status) = stream.status

MirrorReconciled ==
    NoRequestInFlight =>
        \A i \in 1..Len(prisma_stream) :
            prisma_stream[i].onChainId \in Ids => RowReconciled(prisma_stream[i])

\* C32: accrual restarts at each claim.  After a claim committed at t1, the
\* claimable amount at every later time t2 is the accrual over the window
\* from t1 to min(t2, end_time) (empty when t1 is past it), capped by what
\* is left of the stream.
AccrualWindow(t1, t2, end_time) ==
    IF Min(t2, end_time) > t1 THEN Min(t2, end_time) - t1 ELSE 0

AccrualRestartStep ==
    \A id \in Ids :
        (events'.claimed = events.claimed + 1 /\ streams'[id] # streams[id]) =>
            \A t2 \in now..MaxTime :
                LET stream == streams'[id]
                    claimable == calculate_claimable_internal(stream, t2)
                IN /\ claimable.err = OK
                   /\ claimable.val =
                          Min(AccrualWindow(now, t2, stream.end_time) * stream.rate_per_second,
                              stream.total_amount - stream.claimed_amount)

AccrualRestartsAtClaim == [][AccrualRestartStep]_vars

\* C33: full payout.  A stream whose recipient has so far claimed everything
\* that accrued can, at or after end_time, be claimed with amount 0, and that
\* claim leaves it COMPLETED with claimed_amount = total_amount.
ClaimedAllSoFar(stream) ==
    /\ stream.last_claim_time <= stream.end_time
    /\ stream.claimed_amount =
           (stream.last_claim_time - stream.start_time) * stream.rate_per_second

FullPayout ==
    \A id \in Ids :
        LET stream == streams[id]
        IN (/\ stream.status = STATUS_ACTIVE
            /\ now >= stream.end_time
            /\ ClaimedAllSoFar(stream)) =>
               /\ claim_stream_err(stream.recipient, ADMIN, id, 0) = OK
               /\ LET claimable == calculate_claimable_internal(stream, now).val
                      after == StreamAfterClaim(stream, ClaimAmount(0, claimable))
                  IN /\ after.claimed_amount = after.total_amount
                     /\ after.status = STATUS_COMPLETED

\* C34: no stranded funds.  In every reachable state, whatever the clock,
\* a cancel of an ACTIVE stream signed by its sender does not abort.
CancelAlwaysEnabled ==
    \A id \in Ids :
        streams[id].status = STATUS_ACTIVE =>
            cancel_stream_err(streams[id].sender, ADMIN, id) = OK

\* C35: the identity registry stays a bijection.  social_to_address binds h
\* to a exactly when address_to_social binds a to h.
RegistryBijection ==
    /\ \A h \in DOMAIN social_to_address :
           /\ social_to_address[h] \in DOMAIN address_to_social
           /\ address_to_social[social_to_address[h]] = h
    /\ \A a \in DOMAIN address_to_social :
           /\ address_to_social[a] \in DOMAIN social_to_address
           /\ social_to_address[address_to_social[a]] = a

\* every committed claim and cancel is the step its ledger function computes
LedgerFunctionsAgreeStep ==
    /\ \A r \in Addr, id \in Ids, a \in ClaimAmounts :
           /\ claim_stream(r, ADMIN, id, a)
                  => Ledger' = claim_stream_on(Ledger, r, ADMIN, id, a).ledger
           /\ admin_claim_for_recipient(ADMIN, ADMIN, id, r, a)
                  => Ledger' = admin_claim_for_recipient_on(Ledger, ADMIN, ADMIN, id, r, a).ledger
           /\ claim_stream_on(Ledger, r, ADMIN, id, a).err = claim_stream_err(r, ADMIN, id, a)
           /\ admin_claim_for_recipient_on(Ledger, ADMIN, ADMIN, id, r, a).err
                  = admin_claim_for_recipient_err(ADMIN, ADMIN, id, r, a)
    /\ \A s \in Addr, id \in Ids :
           /\ cancel_stream(s, ADMIN, id)
                  => Ledger' = cancel_stream_on(Ledger, s, ADMIN, id).ledger
           /\ admin_cancel_stream(ADMIN, ADMIN, id, s)
                  => Ledger' = admin_cancel_stream_on(Ledger, ADMIN, ADMIN, id, s).ledger
           /\ cancel_stream_on(Ledger, s, ADMIN, id).err = cancel_stream_err(s, ADMIN, id)
           /\ admin_cancel_stream_on(Ledger, ADMIN, ADMIN, id, s).err
                  = admin_cancel_stream_err(ADMIN, ADMIN, id, s)

LedgerFunctionsAgree == [][LedgerFunctionsAgreeStep]_vars

\* C36: operations on different streams commute.  From every reachable
\* ledger and at one clock value, a claim or cancel on one stream and a claim
\* or cancel on another end alike in either order, and both orders lead to
\* the same streams, escrow, collected fees and balances.
LedgerOps ==
    [kind : {"claim"}, who : Addr, id : 1..MaxStreams, amount : ClaimAmounts]
        \cup [kind : {"cancel"}, who : Addr, id : 1..MaxStreams, amount : {0}]

ApplyOp(L, op) ==
    IF op.kind = "claim" THEN claim_stream_on(L, op.who, ADMIN, op.id, op.amount)
    ELSE cancel_stream_on(L, op.who, ADMIN, op.id)

Commute(L, a, b) ==
    LET ra == ApplyOp(L, a)
        rb == ApplyOp(L, b)
        rab == ApplyOp(ra.ledger, b)
        rba == ApplyOp(rb.ledger, a)
    IN /\ ra.err = rba.err
       /\ rb.err = rab.err
       /\ rab.ledger.streams = rba.ledger.streams
       /\ rab.ledger.escrow = rba.ledger.escrow
       /\ rab.ledger.fee_collected = rba.ledger.fee_collected
       /\ rab.ledger.balance = rba.ledger.balance

OperationsCommute ==
    \A a \in LedgerOps, b \in LedgerOps : a.id < b.id => Commute(Ledger, a, b)

\* C37: operator paths equal owner paths.  On every reachable ledger the
\* admin-signed claim for an address and the claim signed by that address
\* end alike and leave the same streams, escrow, balances and events; so do
\* the admin-signed cancel for a sender and the cancel signed by the sender.
SameLedgerEffect(owner, operator) ==
    /\ owner.err = operator.err
    /\ owner.ledger.streams = operator.ledger.streams
    /\ owner.ledger.escrow = operator.ledger.escrow
    /\ owner.ledger.balance = operator.ledger.balance
    /\ owner.ledger.events = operator.ledger.events

OperatorEqualsOwner ==
    \A id \in 1..MaxStreams, who \in Addr :
        /\ \A a \in ClaimAmounts :
               SameLedgerEffect(claim_stream_on(Ledger, who, ADMIN, id, a),
                   admin_claim_for_recipient_on(Ledger, ADMIN, ADMIN, id, who, a))
        /\ SameLedgerEffect(cancel_stream_on(Ledger, who, ADMIN, id),
               admin_cancel_stream_on(Ledger, ADMIN, ADMIN, id, who))

\* C38  Fee balance frame.  fee_collected changes only by a successful
\* creation, which adds the fee of the amount it moves into the escrow, and
\* by a successful withdraw_fees of the admin, which subtracts the amount
\* withdrawn; no withdrawal of more than fee_collected, and none by another
\* signer, succeeds.  Claim, cancel and rebind leave fee_collected
\* unchanged; withdraw_fees leaves every stream unchanged and takes from
\* the escrow exactly the amount, which is at most the collected fees.
IsCreationStep == next_stream_id' = next_stream_id + 1

IsWithdrawStep == fee_collected' < fee_collected

FeeFrameStep ==
    /\ IsCreationStep =>
           LET gross == escrow' - escrow
           IN  /\ fee_collected' = fee_collected + Fee(gross)
               /\ streams'[next_stream_id].total_amount <= gross - Fee(gross)
    /\ ~IsCreationStep => fee_collected' <= fee_collected
    /\ IsWithdrawStep =>
           LET amount == fee_collected - fee_collected'
           IN  /\ withdraw_fees_err(ADMIN, ADMIN, amount) = OK
               /\ amount <= fee_collected
               /\ fee_collected' >= 0
               /\ escrow' = escrow - amount
               /\ balance' = [balance EXCEPT ![ADMIN] = @ + amount]
               /\ streams' = streams
               /\ next_stream_id' = next_stream_id
    /\ (ClaimStream \/ AdminClaimForRecipient \/ CancelStream
            \/ AdminCancelStream \/ UpdateStreamRecipient) =>
           fee_collected' = fee_collected
    /\ WithdrawFees =>
           /\ IsWithdrawStep
           /\ streams' = streams
           /\ escrow - escrow' <= fee_collected
    /\ \A admin \in AdminSigners, c \in ContractAddrs,
          amt \in FeeAmounts \cup {fee_collected + 1} :
           (amt > fee_collected \/ admin # ADMIN) =>
               withdraw_fees_err(admin, c, amt) # OK

FeeFrame == [][FeeFrameStep]_vars

\* fees of a stream were withdrawn while the stream was still being paid out
FeeFrame_Witness ==
    /\ fee_collected = 0
    /\ \E id \in Ids :
           /\ Fee(streams[id].total_amount) > 0
           /\ streams[id].claimed_amount > 0
           /\ streams[id].recipient # streams[id].sender
           /\ balance[ADMIN] >= Fee(streams[id].total_amount)

\* C39  No accrual overflow.  In every reachable state, for every ACTIVE
\* stream and every clock value from now on at which the calculator reaches
\* the product (the clock is not before start_time and the subtraction
\* effective_time - last_claim_time does not go below zero), the product
\* elapsed * rate_per_second is at most rate_per_second * (end_time -
\* start_time), which is at most total_amount, an amount that was a u64
\* argument of the creation.
AccrualElapsed(stream, current_time) ==
    LET effective_time == IF current_time > stream.end_time
                          THEN stream.end_time ELSE current_time
    IN effective_time - stream.last_claim_time

ProductComputed(stream, current_time) ==
    /\ stream.status = STATUS_ACTIVE
    /\ current_time >= stream.start_time
    /\ AccrualElapsed(stream, current_time) >= 0

NoAccrualOverflow ==
    \A id \in Ids, t \in now..(MaxTime + 1) :
        LET stream == streams[id]
        IN ProductComputed(stream, t) =>
               /\ calculate_claimable_internal(stream, t).err = OK
               /\ AccrualElapsed(stream, t) * stream.rate_per_second
                      <= stream.rate_per_second * (stream.end_time - stream.start_time)
               /\ stream.rate_per_second * (stream.end_time - stream.start_time)
                      <= stream.total_amount

\* the whole duration has accrued unclaimed, and the product is the
\* largest it gets, below the total because the rate was truncated
NoAccrualOverflow_Witness ==
    \E id \in Ids :
        LET stream == streams[id]
        IN /\ ProductComputed(stream, now)
           /\ now >= stream.end_time
           /\ stream.last_claim_time = stream.start_time
           /\ stream.rate_per_second > 1
           /\ AccrualElapsed(stream, now) * stream.rate_per_second
                  = stream.rate_per_second * (stream.end_time - stream.start_time)
           /\ AccrualElapsed(stream, now) * stream.rate_per_second < stream.total_amount

\* C40  Registering a binding is idempotent.  register_recipient(h, a) by
\* the admin on an unbound hash h does not fail and inserts h -> a and
\* a -> h; on a hash already bound to the same address a it does not fail
\* and leaves both registry maps unchanged; so after a successful call the
\* same call again succeeds and changes nothing.
RegisterSucceedsWhenDue ==
    \A h \in RegisterHashes, a \in Recipients :
        /\ h \notin DOMAIN social_to_address =>
               register_recipient_err(ADMIN, h, a) = OK
        /\ (h \in DOMAIN social_to_address /\ social_to_address[h] = a) =>
               register_recipient_err(ADMIN, h, a) = OK

RegisterEffectStep ==
    \A h \in RegisterHashes, a \in Recipients :
        register_recipient(ADMIN, h, a) =>
            /\ h \notin DOMAIN social_to_address =>
                   /\ social_to_address' = TableAdd(social_to_address, h, a)
                   /\ address_to_social' = TableAdd(address_to_social, a, h)
            /\ (h \in DOMAIN social_to_address /\ social_to_address[h] = a) =>
                   UNCHANGED registry
            /\ h \in DOMAIN social_to_address'
            /\ social_to_address'[h] = a => register_recipient_err(ADMIN, h, a)' = OK

RegisterIdempotentStep == RegisterSucceedsWhenDue /\ RegisterEffectStep

RegisterIdempotent == [][RegisterIdempotentStep]_vars

====
